---- MODULE Spec2Model ----
(***************************************************************************)
(* The pull request triage of github_retry: PullRequestProcessor.run and   *)
(* the classification of the commit statuses of one pull request           *)
(* (src/pr_processor.py), over the persisted PullRequest and Check records *)
(* (src/models.py).  One Run step is one call of PullRequestProcessor.run; *)
(* Exit is the end of the process that made the call (src/main.py).        *)
(***************************************************************************)
EXTENDS Integers, Sequences, FiniteSets, TLC

(* ------------------------------ bounds --------------------------------- *)
\* longest list of statuses the host returns for the head commit
MaxObs == 2
\* longest path given to Config.get and deepest nesting of the configuration
MaxPath == 2
\* latest wall-clock minute
MaxTime == 2
\* cap on Check.failure_count (the code has none)
MaxFailureCount == 2
\* cap on the counters of collaborator calls kept per revision
MaxCalls == 2
\* most comments of the user on the pull request
MaxComments == 3
\* most pull requests the search of the host returns
MaxPrs == 2
\* latest wall-clock minute of the cycles that follow one failure event
MaxClock == 4

(* ---------------------------- absent values ---------------------------- *)
\* Python None for PullRequest.last_processed_sha
NoSha == "None"
\* Python None for Check.last_errored_id
NoId == 0
\* Python None for Check.last_retried_at
NoTime == -1
\* Python None returned by Config.get for a missing key
Nil == -1

(* --------------------------- program constants ------------------------- *)
DEFAULT_MAX_RETRIES == 7
DEFAULT_MAX_RETRY_DELAY == 5

(* ------------------------------- inputs -------------------------------- *)
Shas == {"1111", "2222"}
Ids == {28, 82}
Times == 0..MaxTime
Contexts == {"blah", "fast_fail", "codecov/patch"}
\* the states of a commit status on the host; the processor knows the
\* first three
GhStates == {"success", "pending", "error", "failure"}
RetrierClasses == {"GitAmendPushRetrier", "KubeRetrier"}
STATUSES == {"successful", "pending", "failed"}

\* a status of the head commit, as gh_commit.get_statuses() gives it
GhCheck(context, state, id) == [context |-> context, state |-> state, id |-> id]

\* The statuses the CI of a repository can post.  The event id is read for
\* the state error only (pr_processor.py:158,172), so the other states carry
\* one id; codecov/patch is ignored by the configuration, so its state is
\* never read.
\*   StableCi: blah runs, passes or fails; codecov/patch is ignored
StableCi ==
    {GhCheck("blah", s, 12) : s \in {"success", "pending"}}
        \cup {GhCheck("blah", "error", i) : i \in Ids}
        \cup {GhCheck("codecov/patch", "error", 28)}

\*   FlakyCi:  two checks that fail: fast_fail with a new event each time,
\*             blah with one event
FlakyCi ==
    {GhCheck("fast_fail", "error", i) : i \in Ids} \cup {GhCheck("blah", "error", 28)}

\*   BrokenCi: blah and codecov/patch end in a state of the host the
\*             processor does not know, fast_fail fails
BrokenCi ==
    {GhCheck("blah", "failure", 12), GhCheck("fast_fail", "error", 28),
     GhCheck("codecov/patch", "failure", 12)}

CiSetups == {StableCi, FlakyCi, BrokenCi}

\* the lists gh_commit.get_statuses() can return, most recent first
StatusLists(setup) == UNION {[1..n -> setup] : n \in 0..MaxObs}

Range(s) == {s[i] : i \in 1..Len(s)}

(* ------------------------------- config -------------------------------- *)
ConfigKeys == {"ignore", "max_retries", "max_retry_delay"}
NoKeys == [k \in ConfigKeys |-> Nil]

\* config.yml: the root level, the level of the repository and the level of
\* each check of the repository.  Retries wait 1 minute, 2 for fast_fail;
\* a check may fail once; codecov/patch is ignored.
Configs ==
    {[root |-> [NoKeys EXCEPT !["max_retry_delay"] = 1],
      repo |-> [NoKeys EXCEPT !["max_retries"] = 1],
      checks |-> [c \in Contexts |->
                     IF c = "codecov/patch" THEN [NoKeys EXCEPT !["ignore"] = 1]
                     ELSE IF c = "fast_fail" THEN [NoKeys EXCEPT !["max_retry_delay"] = 2]
                     ELSE NoKeys]]}

\* Python truthiness of a configured value: None and 0 are false
Truthy(v) == v # Nil /\ v # 0

RootConfig(cfg, key) == cfg.root[key]

RepoConfig(cfg, key) == cfg.repo[key]

CheckConfig(cfg, check_name, key) == cfg.checks[check_name][key]

ResolveMultiLevelConfig(cfg, key, check_name, default) ==
    LET check_level == CheckConfig(cfg, check_name, key)
        repo_level == RepoConfig(cfg, key)
        root_level == RootConfig(cfg, key)
    IN  IF Truthy(check_level) THEN check_level
        ELSE IF Truthy(repo_level) THEN repo_level
        ELSE IF Truthy(root_level) THEN root_level
        ELSE default

(* ------------------------------- records ------------------------------- *)
\* a Check row; exists = FALSE when the table has no row for the context
NoCheck == [exists |-> FALSE, failure_count |-> 0,
            last_errored_id |-> NoId, last_retried_at |-> NoTime]

\* Check.__init__
NewCheck == [exists |-> TRUE, failure_count |-> 0,
             last_errored_id |-> NoId, last_retried_at |-> NoTime]

\* PullRequest.__init__: neither column is set
NewPullRequest == [last_processed_sha |-> NoSha, status |-> "None"]

EmptyBuckets == [successful |-> <<>>, pending |-> <<>>, retrying |-> <<>>,
                 retry_pending |-> <<>>, too_many_failures |-> <<>>]

BucketNames == {"successful", "pending", "retrying", "retry_pending",
                "too_many_failures"}

\* PullRequestChecksStatus.to_list
ToList(buckets) ==
    buckets.successful \o buckets.pending \o buckets.retrying
        \o buckets.retry_pending \o buckets.too_many_failures

VARIABLES
    pr,       \* the pull_requests row
    checks,   \* the checks rows of the pull request, by context
    config,   \* the configuration file
    ci,       \* the statuses the CI of the repository can post
    last,     \* what the last call of run did, until the process exits
    hist,     \* terminal calls since the last new revision, contexts that waited
    first     \* outcome and retry of the call before last, when last repeats it

vars == <<pr, checks, config, ci, last, hist, first>>

(* ------------------------ PullRequestProcessor ------------------------- *)
\* new_patch = head_sha != self._pr.last_processed_sha
IsNewPatch(head_sha, pull_request) == head_sha # pull_request.last_processed_sha

\* variant: a new patch does not take the status back to pending
DetectNewPatch_KeepStatus(head_sha, pull_request) ==
    [last_processed_sha |-> head_sha, status |-> pull_request.status]

\* variant: the fetched head is not stored on the pull request
DetectNewPatch_KeepSha(head_sha, pull_request) ==
    [last_processed_sha |-> pull_request.last_processed_sha,
     status |-> IF IsNewPatch(head_sha, pull_request) THEN "pending"
                ELSE pull_request.status]

\* the pull request after "last_processed_sha = head_sha" and the reset of
\* the status on a new patch
DetectNewPatch(head_sha, pull_request) ==
    [last_processed_sha |-> head_sha,
     status |-> IF IsNewPatch(head_sha, pull_request) THEN "pending"
                ELSE pull_request.status]

\* variant: only a successful pull request returns early
ShortCircuits_OnlySuccessful(new_patch, status) == ~new_patch /\ status = "successful"

\* variant: the early return is never taken
ShortCircuits_Never(new_patch, status) == FALSE

\* the early return of run: no new patch and a status that is not pending
ShortCircuits(new_patch, status) == ~new_patch /\ status # "pending"

\* _fetch_current_gh_checks: keeps the first status of each context
RECURSIVE FetchLoop(_, _, _, _)
FetchLoop(statuses, i, seen_contexts, result) ==
    IF i > Len(statuses) THEN result
    ELSE IF statuses[i].context \in seen_contexts
         THEN FetchLoop(statuses, i + 1, seen_contexts, result)
         ELSE FetchLoop(statuses, i + 1, seen_contexts \cup {statuses[i].context},
                        Append(result, statuses[i]))

\* variant: the last status of each context is kept
RECURSIVE FetchLoop_KeepLast(_, _, _)
FetchLoop_KeepLast(statuses, i, result) ==
    IF i > Len(statuses) THEN result
    ELSE IF \E j \in (i + 1)..Len(statuses) : statuses[j].context = statuses[i].context
         THEN FetchLoop_KeepLast(statuses, i + 1, result)
         ELSE FetchLoop_KeepLast(statuses, i + 1, Append(result, statuses[i]))

FetchCurrentGhChecks_KeepLast(statuses) == FetchLoop_KeepLast(statuses, 1, <<>>)

\* variant: every status is kept, a context can come twice
FetchCurrentGhChecks_KeepAll(statuses) == statuses

FetchCurrentGhChecks(statuses) == FetchLoop(statuses, 1, {}, <<>>)

\* variant: a new patch does not reset the failure_count
LoadOrCreateCheck_NoReset(existing, new_patch) ==
    IF existing.exists THEN existing ELSE NewCheck

\* the Check object the loop works on: the stored one, its failure_count
\* reset on a new patch, or a new one
LoadOrCreateCheck(existing, new_patch) ==
    IF existing.exists
    THEN IF new_patch THEN [existing EXCEPT !.failure_count = 0] ELSE existing
    ELSE NewCheck

\* variant: the delay counts as elapsed as soon as it is reached
DelayElapsed_AtLeast(now, last_retried_at, delay) == now - last_retried_at >= delay

\* now - check.last_retried_at > datetime.timedelta(minutes=delay)
DelayElapsed(now, last_retried_at, delay) == now - last_retried_at > delay

\* variant: a failure that was retried is retried again at once
MayRetryAgain_Always(check, now, delay) == TRUE

\* "not check.last_retried_at or now - check.last_retried_at > delay"
MayRetryAgain(check, now, delay) ==
    check.last_retried_at = NoTime \/ DelayElapsed(now, check.last_retried_at, delay)

\* variant: the budget is used up as soon as the count reaches it
TooManyFailures_AtLeast(failure_count, max_retries) == failure_count >= max_retries

\* failure_count > max_retries
TooManyFailures(failure_count, max_retries) == failure_count > max_retries

\* variant: a new failure event waits for the cooldown like a known one
ClassifyCheck_GatedNewFailure(cfg, check, gh_check, now) ==
    IF gh_check.state = "error"
    THEN LET max_retries == ResolveMultiLevelConfig(cfg, "max_retries", gh_check.context,
                                                    DEFAULT_MAX_RETRIES)
             delay == ResolveMultiLevelConfig(cfg, "max_retry_delay", gh_check.context,
                                              DEFAULT_MAX_RETRY_DELAY)
             failed == IF gh_check.id = check.last_errored_id THEN check
                       ELSE [check EXCEPT !.failure_count = @ + 1,
                                          !.last_errored_id = gh_check.id]
         IN  IF TooManyFailures(failed.failure_count, max_retries)
             THEN [check |-> failed, bucket |-> "too_many_failures"]
             ELSE IF MayRetryAgain(failed, now, delay)
                  THEN [check |-> failed, bucket |-> "retrying"]
                  ELSE [check |-> failed, bucket |-> "retry_pending"]
    ELSE IF gh_check.state = "pending" THEN [check |-> check, bucket |-> "pending"]
    ELSE IF gh_check.state = "success" THEN [check |-> check, bucket |-> "successful"]
    ELSE [check |-> check, bucket |-> "raise"]

\* variant: a success takes the failure_count back to 0
ClassifyCheck_SuccessResets(cfg, check, gh_check, now) ==
    IF gh_check.state = "error"
    THEN LET max_retries == ResolveMultiLevelConfig(cfg, "max_retries", gh_check.context,
                                                    DEFAULT_MAX_RETRIES)
             delay == ResolveMultiLevelConfig(cfg, "max_retry_delay", gh_check.context,
                                              DEFAULT_MAX_RETRY_DELAY)
             failed == [check EXCEPT !.failure_count = @ + 1,
                                     !.last_errored_id = gh_check.id]
         IN  IF gh_check.id = check.last_errored_id
             THEN IF TooManyFailures(check.failure_count, max_retries)
                  THEN [check |-> check, bucket |-> "too_many_failures"]
                  ELSE IF MayRetryAgain(check, now, delay)
                       THEN [check |-> check, bucket |-> "retrying"]
                       ELSE [check |-> check, bucket |-> "retry_pending"]
             ELSE IF TooManyFailures(failed.failure_count, max_retries)
                  THEN [check |-> failed, bucket |-> "too_many_failures"]
                  ELSE [check |-> failed, bucket |-> "retrying"]
    ELSE IF gh_check.state = "pending" THEN [check |-> check, bucket |-> "pending"]
    ELSE IF gh_check.state = "success"
         THEN [check |-> [check EXCEPT !.failure_count = 0], bucket |-> "successful"]
    ELSE [check |-> check, bucket |-> "raise"]

\* variant: every observation of an error counts as a failure, the event it
\* carries seen before or not
ClassifyCheck_CountsEachObservation(cfg, check, gh_check, now) ==
    IF gh_check.state = "error"
    THEN LET max_retries == ResolveMultiLevelConfig(cfg, "max_retries", gh_check.context,
                                                    DEFAULT_MAX_RETRIES)
             delay == ResolveMultiLevelConfig(cfg, "max_retry_delay", gh_check.context,
                                              DEFAULT_MAX_RETRY_DELAY)
             failed == [check EXCEPT !.failure_count = @ + 1,
                                     !.last_errored_id = gh_check.id]
         IN  IF TooManyFailures(failed.failure_count, max_retries)
             THEN [check |-> failed, bucket |-> "too_many_failures"]
             ELSE IF gh_check.id # check.last_errored_id \/ MayRetryAgain(check, now, delay)
                  THEN [check |-> failed, bucket |-> "retrying"]
                  ELSE [check |-> failed, bucket |-> "retry_pending"]
    ELSE IF gh_check.state = "pending" THEN [check |-> check, bucket |-> "pending"]
    ELSE IF gh_check.state = "success" THEN [check |-> check, bucket |-> "successful"]
    ELSE [check |-> check, bucket |-> "raise"]

\* variant: a state that is not known counts as pending
ClassifyCheck_UnknownIsPending(cfg, check, gh_check, now) ==
    IF gh_check.state = "error"
    THEN LET max_retries == ResolveMultiLevelConfig(cfg, "max_retries", gh_check.context,
                                                    DEFAULT_MAX_RETRIES)
             delay == ResolveMultiLevelConfig(cfg, "max_retry_delay", gh_check.context,
                                              DEFAULT_MAX_RETRY_DELAY)
             failed == [check EXCEPT !.failure_count = @ + 1,
                                     !.last_errored_id = gh_check.id]
         IN  IF gh_check.id = check.last_errored_id
             THEN IF TooManyFailures(check.failure_count, max_retries)
                  THEN [check |-> check, bucket |-> "too_many_failures"]
                  ELSE IF MayRetryAgain(check, now, delay)
                       THEN [check |-> check, bucket |-> "retrying"]
                       ELSE [check |-> check, bucket |-> "retry_pending"]
             ELSE IF TooManyFailures(failed.failure_count, max_retries)
                  THEN [check |-> failed, bucket |-> "too_many_failures"]
                  ELSE [check |-> failed, bucket |-> "retrying"]
    ELSE IF gh_check.state = "success" THEN [check |-> check, bucket |-> "successful"]
    ELSE [check |-> check, bucket |-> "pending"]

\* the body of the loop of _update_or_create_db_checks for one status that
\* is not ignored: the Check as it leaves the body and the list it is
\* appended to ("raise" for the RuntimeError of an unknown state)
ClassifyCheck(cfg, check, gh_check, now) ==
    IF gh_check.state = "error"
    THEN LET max_retries == ResolveMultiLevelConfig(cfg, "max_retries", gh_check.context,
                                                    DEFAULT_MAX_RETRIES)
         IN  IF gh_check.id = check.last_errored_id
             THEN IF TooManyFailures(check.failure_count, max_retries)
                  THEN [check |-> check, bucket |-> "too_many_failures"]
                  ELSE LET delay == ResolveMultiLevelConfig(cfg, "max_retry_delay",
                                                            gh_check.context,
                                                            DEFAULT_MAX_RETRY_DELAY)
                       IN  IF MayRetryAgain(check, now, delay)
                           THEN [check |-> check, bucket |-> "retrying"]
                           ELSE [check |-> check, bucket |-> "retry_pending"]
             ELSE LET failed == [check EXCEPT !.failure_count = @ + 1,
                                              !.last_errored_id = gh_check.id]
                  IN  IF TooManyFailures(failed.failure_count, max_retries)
                      THEN [check |-> failed, bucket |-> "too_many_failures"]
                      ELSE [check |-> failed, bucket |-> "retrying"]
    ELSE IF gh_check.state = "pending" THEN [check |-> check, bucket |-> "pending"]
    ELSE IF gh_check.state = "success" THEN [check |-> check, bucket |-> "successful"]
    ELSE [check |-> check, bucket |-> "raise"]

\* appends the check to its list
AppendToBucket(buckets, bucket, context) ==
    [b \in BucketNames |-> IF b = bucket THEN Append(buckets[b], context) ELSE buckets[b]]

\* variant: the loop does not skip the ignored contexts
RECURSIVE UpdateLoop_NoIgnore(_, _, _, _, _, _)
UpdateLoop_NoIgnore(cfg, current_gh_checks, i, new_patch, now, acc) ==
    IF i > Len(current_gh_checks) \/ acc.raised THEN acc
    ELSE LET gh_check == current_gh_checks[i]
             check == LoadOrCreateCheck(acc.checks[gh_check.context], new_patch)
             res == ClassifyCheck(cfg, check, gh_check, now)
         IN  IF res.bucket = "raise"
             THEN [acc EXCEPT !.raised = TRUE]
             ELSE UpdateLoop_NoIgnore(cfg, current_gh_checks, i + 1, new_patch, now,
                      [acc EXCEPT !.checks[gh_check.context] = res.check,
                                  !.buckets = AppendToBucket(acc.buckets, res.bucket,
                                                             gh_check.context)])

\* the loop of _update_or_create_db_checks from the i-th status on; acc holds
\* the Check objects by context, the five lists and whether the loop raised
RECURSIVE UpdateLoop(_, _, _, _, _, _)
UpdateLoop(cfg, current_gh_checks, i, new_patch, now, acc) ==
    IF i > Len(current_gh_checks) \/ acc.raised THEN acc
    ELSE LET gh_check == current_gh_checks[i] IN
         IF Truthy(CheckConfig(cfg, gh_check.context, "ignore"))
         THEN UpdateLoop(cfg, current_gh_checks, i + 1, new_patch, now, acc)
         ELSE LET check == LoadOrCreateCheck(acc.checks[gh_check.context], new_patch)
                  res == ClassifyCheck(cfg, check, gh_check, now)
              IN  IF res.bucket = "raise"
                  THEN [acc EXCEPT !.raised = TRUE]
                  ELSE UpdateLoop(cfg, current_gh_checks, i + 1, new_patch, now,
                           [acc EXCEPT !.checks[gh_check.context] = res.check,
                                       !.buckets = AppendToBucket(acc.buckets, res.bucket,
                                                                  gh_check.context)])

UpdateOrCreateDbChecks(cfg, existing_db_checks, current_gh_checks, new_patch, now) ==
    UpdateLoop(cfg, current_gh_checks, 1, new_patch, now,
               [checks |-> existing_db_checks, buckets |-> EmptyBuckets, raised |-> FALSE])

\* variant: no success without a check that passed
Branch_SuccessNeedsACheck(buckets) ==
    IF buckets.too_many_failures # <<>> THEN "too_many_failures"
    ELSE IF buckets.retrying # <<>> THEN "retrying"
    ELSE IF Len(buckets.retry_pending) + Len(buckets.pending) = 0
            /\ buckets.successful # <<>> THEN "success"
    ELSE "wait"

\* variant: checks that are pending or wait do not hold the success back
Branch_IgnorePending(buckets) ==
    IF buckets.too_many_failures # <<>> THEN "too_many_failures"
    ELSE IF buckets.retrying # <<>> THEN "retrying"
    ELSE "success"

\* variant: the chain looks at retrying before too_many_failures
Branch_RetryFirst(buckets) ==
    IF buckets.retrying # <<>> THEN "retrying"
    ELSE IF buckets.too_many_failures # <<>> THEN "too_many_failures"
    ELSE IF Len(buckets.retry_pending) + Len(buckets.pending) = 0 THEN "success"
    ELSE "wait"

\* the if / elif chain of run after the classification
Branch(buckets) ==
    IF buckets.too_many_failures # <<>> THEN "too_many_failures"
    ELSE IF buckets.retrying # <<>> THEN "retrying"
    ELSE IF Len(buckets.retry_pending) + Len(buckets.pending) = 0 THEN "success"
    ELSE "wait"

\* the status of the pull request after the chain
StatusAfter(branch, status) ==
    IF branch = "too_many_failures" THEN "failed"
    ELSE IF branch = "success" THEN "successful"
    ELSE status

\* variant: every stored check is stamped, whatever its list
StampRetrying_All(db_checks, retrying, now) ==
    [c \in Contexts |-> IF db_checks[c].exists
                        THEN [db_checks[c] EXCEPT !.last_retried_at = now]
                        ELSE db_checks[c]]

\* "for check in checks.retrying: check.last_retried_at = now"
StampRetrying(db_checks, retrying, now) ==
    [c \in Contexts |-> IF c \in Range(retrying)
                        THEN [db_checks[c] EXCEPT !.last_retried_at = now]
                        ELSE db_checks[c]]

\* variant: the retry branch calls the retrier before the notifier
Dispatch_RetryBeforeNotify(branch) ==
    IF branch = "too_many_failures" THEN <<"notifier.too_many_failures", "retrier.cleanup">>
    ELSE IF branch = "retrying" THEN <<"retrier.retry", "notifier.retrying">>
    ELSE IF branch = "success" THEN <<"notifier.success", "retrier.cleanup">>
    ELSE <<>>

\* variant: the success branch does not clean up
Dispatch_NoCleanupOnSuccess(branch) ==
    IF branch = "too_many_failures" THEN <<"notifier.too_many_failures", "retrier.cleanup">>
    ELSE IF branch = "retrying" THEN <<"notifier.retrying", "retrier.retry">>
    ELSE IF branch = "success" THEN <<"notifier.success">>
    ELSE <<>>

\* the calls made on the notifier and on the retrier, in order
Dispatch(branch) ==
    IF branch = "too_many_failures" THEN <<"notifier.too_many_failures", "retrier.cleanup">>
    ELSE IF branch = "retrying" THEN <<"notifier.retrying", "retrier.retry">>
    ELSE IF branch = "success" THEN <<"notifier.success", "retrier.cleanup">>
    ELSE <<>>

\* variant: the sha the retrier stored is lost, the fetched head is saved
RetrierRetry_Overwritten(retrier_class, pull_request, new_sha) == pull_request

\* what retrier.retry does to the pull request object: GitAmendPushRetrier
\* stores the sha of the amended commit (the FakeRetrier of
\* test_retrier_can_alter_db_objects stores a sha too), KubeRetrier leaves it
\* alone
RetrierRetry(retrier_class, pull_request, new_sha) ==
    IF retrier_class \in {"GitAmendPushRetrier", "FakeRetrier"}
    THEN [pull_request EXCEPT !.last_processed_sha = new_sha]
    ELSE pull_request

\* the event id the retry_func of test_retrier_can_alter_db_objects writes
AlteredId == 82

\* what retrier.retry does to the Check objects of the report: the two
\* retriers of retriers.py touch none; the FakeRetrier of
\* test_retrier_can_alter_db_objects sets the last_errored_id of the first
\* check of retrying
RetrierRetryChecks(retrier_class, db_checks, retrying) ==
    IF retrier_class = "FakeRetrier" /\ retrying # <<>>
    THEN [db_checks EXCEPT ![retrying[1]].last_errored_id = AlteredId]
    ELSE db_checks

\* no call of run has been made by the running process
NoCycle ==
    [outcome |-> "none", head |-> NoSha, now |-> 0, new_patch |-> FALSE,
     statuses |-> <<>>, gh_checks |-> <<>>,
     pre_pr |-> NewPullRequest, pre_checks |-> [c \in Contexts |-> NoCheck],
     detected |-> NewPullRequest, buckets |-> EmptyBuckets, calls |-> <<>>,
     retried |-> <<>>, retrier |-> "None"]

\* PullRequestProcessor.run(db_session, retrier, notifier) on the rows
\* pull_request and db_checks: the rows it commits and what it did.
\*   outcome "short":     the early return, nothing fetched or committed
\*   outcome "raised":    RuntimeError of an unknown state, nothing committed
\*   outcome "completed": the commit at the end was reached
ProcessorRun(cfg, pull_request, db_checks, head_sha, statuses, now, retrier_class, new_sha) ==
    LET new_patch == IsNewPatch(head_sha, pull_request)
        detected == DetectNewPatch(head_sha, pull_request)
        report == [NoCycle EXCEPT !.head = head_sha, !.now = now, !.new_patch = new_patch,
                                  !.pre_pr = pull_request, !.pre_checks = db_checks,
                                  !.detected = detected]
    IN  IF ShortCircuits(new_patch, detected.status)
        THEN [pr |-> pull_request, checks |-> db_checks,
              report |-> [report EXCEPT !.outcome = "short", !.calls = <<"get_pull">>]]
        ELSE
        LET current_gh_checks == FetchCurrentGhChecks(statuses)
            updated == UpdateOrCreateDbChecks(cfg, db_checks, current_gh_checks, new_patch, now)
            fetched == [report EXCEPT !.statuses = statuses, !.gh_checks = current_gh_checks]
        IN  IF updated.raised
            THEN [pr |-> pull_request, checks |-> db_checks,
                  report |-> [fetched EXCEPT !.outcome = "raised",
                                             !.calls = <<"get_pull", "get_commit">>]]
            ELSE
            LET branch == Branch(updated.buckets)
                decided == [detected EXCEPT !.status = StatusAfter(branch, @)]
                retried == IF branch = "retrying"
                           THEN RetrierRetry(retrier_class, decided, new_sha)
                           ELSE decided
                stamped == IF branch = "retrying"
                           THEN StampRetrying(
                                    RetrierRetryChecks(retrier_class, updated.checks,
                                                       updated.buckets.retrying),
                                    updated.buckets.retrying, now)
                           ELSE updated.checks
            IN  [pr |-> retried, checks |-> stamped,
                 report |-> [fetched EXCEPT
                     !.outcome = "completed",
                     !.buckets = updated.buckets,
                     !.calls = <<"get_pull", "get_commit">> \o Dispatch(branch)
                                   \o <<"commit">>,
                     !.retried = IF branch = "retrying" THEN <<updated.buckets>> ELSE <<>>,
                     !.retrier = IF branch = "retrying" THEN retrier_class ELSE "None"]]

(* ------------------------------ the system ----------------------------- *)
\* how many times name occurs in the calls
Count(calls, name) == Cardinality({i \in 1..Len(calls) : calls[i] = name})

TerminalNotifications == {"notifier.too_many_failures", "notifier.success"}

Terminals(calls) ==
    Cardinality({i \in 1..Len(calls) : calls[i] \in TerminalNotifications})

\* the latest last_retried_at of the rows: the wall clock has passed it
LatestStamp(db_checks) ==
    CHOOSE t \in {db_checks[c].last_retried_at : c \in Contexts} :
        \A c \in Contexts : db_checks[c].last_retried_at <= t

NoHist == [terminal |-> 0, cleanup_count |-> 0, retry_pending_seen |-> {},
           in_a_row |-> [c \in Contexts |-> 0], comments |-> <<>>,
           retries_of_event |-> [c \in Contexts |-> 0],
           resolved |-> [head |-> NoSha, from |-> "None"]]

\* the terminal notifications and the cleanups since the commit of the last
\* new revision, and the contexts that were ever in retry_pending
Record(h, report) ==
    IF report.outcome # "completed" THEN h
    ELSE [terminal |-> (IF report.new_patch THEN 0 ELSE h.terminal)
                           + Terminals(report.calls),
          cleanup_count |-> (IF report.new_patch THEN 0 ELSE h.cleanup_count)
                                + Count(report.calls, "retrier.cleanup"),
          retry_pending_seen |-> h.retry_pending_seen
                                     \cup Range(report.buckets.retry_pending),
          in_a_row |-> h.in_a_row,
          comments |-> h.comments,
          retries_of_event |-> h.retries_of_event,
          resolved |-> h.resolved]

Init ==
    /\ pr = NewPullRequest
    /\ checks = [c \in Contexts |-> NoCheck]
    /\ config \in Configs
    /\ ci \in CiSetups
    /\ last = NoCycle
    /\ hist = NoHist
    /\ first = NoCycle

\* the sha "git rev-parse HEAD" prints after the amend: a commit that is not
\* the fetched head
AmendedSha(head_sha) == CHOOSE s \in Shas : s # head_sha

\* One evaluation cycle: the host answers head_sha and statuses, the clock
\* reads now, and the repository is configured with retrier_class.
Run ==
    /\ last.outcome = "none"
    /\ \E head_sha \in Shas, now \in Times, statuses \in StatusLists(ci),
          retrier_class \in RetrierClasses :
        /\ now >= LatestStamp(checks)
        /\ ShortCircuits(IsNewPatch(head_sha, pr), DetectNewPatch(head_sha, pr).status)
               => (statuses = <<>> /\ retrier_class = "KubeRetrier")
        /\ \E r \in {ProcessorRun(config, pr, checks, head_sha, statuses, now,
                                 retrier_class, AmendedSha(head_sha))} :
           \E h \in {Record(hist, r.report)} :
               /\ r.report.retried = <<>> => retrier_class = "KubeRetrier"
               /\ \A c \in Contexts : r.checks[c].failure_count <= MaxFailureCount
               /\ h.terminal <= MaxCalls /\ h.cleanup_count <= MaxCalls
               /\ pr' = r.pr
               /\ checks' = r.checks
               /\ last' = r.report
               /\ hist' = h
               /\ UNCHANGED <<config, ci, first>>

\* the process ends: the report and the collaborators' objects are gone, the
\* rows stay
Exit ==
    /\ last.outcome # "none"
    /\ last' = NoCycle
    /\ first' = NoCycle
    /\ UNCHANGED <<pr, checks, config, ci, hist>>

Next == Run \/ Exit

Spec == Init /\ [][Next]_vars

\* the processor on the repositories whose check passes or fails (StableCi)
\* or ends in a state it does not know (BrokenCi)
InitDup == Init /\ ci \in {StableCi, BrokenCi}

SpecDup == InitDup /\ [][Next]_vars

\* One evaluation cycle for which the host answers one status per context.
\* The statuses that _fetch_current_gh_checks drops play no part in what
\* follows it, so these cycles reach every pair of rows that Run reaches.
RunDistinct ==
    /\ last.outcome = "none"
    /\ \E head_sha \in Shas, now \in Times, statuses \in StatusLists(ci),
          retrier_class \in RetrierClasses :
        /\ now >= LatestStamp(checks)
        /\ FetchCurrentGhChecks(statuses) = statuses
        /\ ShortCircuits(IsNewPatch(head_sha, pr), DetectNewPatch(head_sha, pr).status)
               => (statuses = <<>> /\ retrier_class = "KubeRetrier")
        /\ \E r \in {ProcessorRun(config, pr, checks, head_sha, statuses, now,
                                 retrier_class, AmendedSha(head_sha))} :
           \E h \in {Record(hist, r.report)} :
               /\ r.report.retried = <<>> => retrier_class = "KubeRetrier"
               /\ \A c \in Contexts : r.checks[c].failure_count <= MaxFailureCount
               /\ h.terminal <= MaxCalls /\ h.cleanup_count <= MaxCalls
               /\ pr' = r.pr
               /\ checks' = r.checks
               /\ last' = r.report
               /\ hist' = h
               /\ UNCHANGED <<config, ci, first>>

\* the processor when the host answers one status per context
NextDistinct == RunDistinct \/ Exit

SpecDistinct == Init /\ [][NextDistinct]_vars

\* The evaluation is run twice in a row: a second call of run for which the
\* host answers the head and the statuses it answered to the call before.
Rerun ==
    /\ last.outcome # "none"
    /\ first.outcome = "none"
    /\ \E now \in Times, retrier_class \in RetrierClasses :
        /\ now >= last.now
        /\ now >= LatestStamp(checks)
        /\ \E r \in {ProcessorRun(config, pr, checks, last.head, last.statuses, now,
                                 retrier_class, AmendedSha(last.head))} :
           \E h \in {Record(hist, r.report)} :
               /\ r.report.retried = <<>> => retrier_class = "KubeRetrier"
               /\ \A c \in Contexts : r.checks[c].failure_count <= MaxFailureCount
               /\ h.terminal <= MaxCalls /\ h.cleanup_count <= MaxCalls
               /\ pr' = r.pr
               /\ checks' = r.checks
               /\ first' = [NoCycle EXCEPT !.outcome = last.outcome, !.retried = last.retried]
               /\ last' = r.report
               /\ hist' = h
               /\ UNCHANGED <<config, ci>>

NextTwice == RunDistinct \/ Rerun \/ Exit

SpecTwice == Init /\ [][NextTwice]_vars

(* ------------------------ failures in a row ----------------------------- *)
\*   RecoveringCi: blah fails, passes and fails again while fast_fail runs
RecoveringCi ==
    {GhCheck("blah", "error", i) : i \in Ids}
        \cup {GhCheck("blah", "success", 12), GhCheck("fast_fail", "pending", 12)}

\* "counts how many failures have been observed in a row, that is,
\* _consecutive_ failures" (models.py:94-95): the count after a completed
\* cycle, from the count before it.  A new revision starts the count again,
\* a failure event the check has not recorded adds 1, a success takes it
\* back to 0.
FailuresInARow(in_a_row, report) ==
    [c \in Contexts |->
        LET entering == IF report.new_patch THEN 0 ELSE in_a_row[c]
            seen == {i \in 1..Len(report.gh_checks) : report.gh_checks[i].context = c}
        IN  IF seen = {} \/ Truthy(CheckConfig(config, c, "ignore")) THEN entering
            ELSE LET g == report.gh_checks[CHOOSE i \in seen : TRUE] IN
                 IF g.state = "success" THEN 0
                 ELSE IF g.state = "error" /\ g.id # report.pre_checks[c].last_errored_id
                      THEN entering + 1
                      ELSE entering]

InitCounting ==
    /\ pr = NewPullRequest
    /\ checks = [c \in Contexts |-> NoCheck]
    /\ config \in Configs
    /\ ci = RecoveringCi
    /\ last = NoCycle
    /\ hist = NoHist
    /\ first = NoCycle

\* One evaluation cycle, one status per context, with the failures in a row
\* of each check counted beside it.
RunCounting ==
    /\ last.outcome = "none"
    /\ \E head_sha \in Shas, now \in Times, statuses \in StatusLists(ci),
          retrier_class \in RetrierClasses :
        /\ now >= LatestStamp(checks)
        /\ FetchCurrentGhChecks(statuses) = statuses
        /\ ShortCircuits(IsNewPatch(head_sha, pr), DetectNewPatch(head_sha, pr).status)
               => (statuses = <<>> /\ retrier_class = "KubeRetrier")
        /\ \E r \in {ProcessorRun(config, pr, checks, head_sha, statuses, now,
                                 retrier_class, AmendedSha(head_sha))} :
           \E h \in {Record(hist, r.report)} :
               /\ r.report.retried = <<>> => retrier_class = "KubeRetrier"
               /\ \A c \in Contexts : r.checks[c].failure_count <= MaxFailureCount
               /\ h.terminal <= MaxCalls /\ h.cleanup_count <= MaxCalls
               /\ pr' = r.pr
               /\ checks' = r.checks
               /\ last' = r.report
               /\ hist' = IF r.report.outcome = "completed"
                          THEN [h EXCEPT !.in_a_row = FailuresInARow(hist.in_a_row, r.report)]
                          ELSE h
               /\ UNCHANGED <<config, ci, first>>

NextCounting == RunCounting \/ Exit

SpecCounting == InitCounting /\ [][NextCounting]_vars

(* ------------------- one failure event, seen again --------------------- *)
\* how many times retrier.retry has been given each check for the failure
\* event its row holds, after a cycle: a check the cycle retries for an
\* event its row did not hold starts at 1, one retried for the event of its
\* row adds 1
RetriesOfEvent(retries, report, db_checks) ==
    [c \in Contexts |->
        IF report.retried = <<>> \/ c \notin Range(report.buckets.retrying) THEN
            IF db_checks[c].last_errored_id = report.pre_checks[c].last_errored_id
            THEN retries[c] ELSE 0
        ELSE IF db_checks[c].last_errored_id = report.pre_checks[c].last_errored_id
             THEN retries[c] + 1
             ELSE 1]

\* a repository whose CI is FlakyCi: blah stays in error with one event
InitRetriggered == Init /\ ci = FlakyCi

\* the minutes at which the program is started: every other minute
PollingTimes == {t \in 0..MaxClock : t % 2 = 0}

\* One evaluation cycle of a program that is started every other minute, long
\* enough for several cooldowns: one status per context, with the retries of
\* each failure event counted beside it.
RunRetriggered ==
    /\ last.outcome = "none"
    /\ \E head_sha \in Shas, now \in PollingTimes, statuses \in StatusLists(ci) :
        /\ now >= LatestStamp(checks)
        /\ FetchCurrentGhChecks(statuses) = statuses
        /\ ShortCircuits(IsNewPatch(head_sha, pr), DetectNewPatch(head_sha, pr).status)
               => statuses = <<>>
        /\ \E r \in {ProcessorRun(config, pr, checks, head_sha, statuses, now,
                                 "KubeRetrier", AmendedSha(head_sha))} :
           \E h \in {Record(hist, r.report)} :
               /\ \A c \in Contexts : r.checks[c].failure_count <= MaxFailureCount
               /\ h.terminal <= MaxCalls /\ h.cleanup_count <= MaxCalls
               /\ pr' = r.pr
               /\ checks' = r.checks
               /\ last' = r.report
               /\ hist' = IF r.report.outcome = "completed"
                          THEN [h EXCEPT !.retries_of_event =
                                    RetriesOfEvent(hist.retries_of_event, r.report, r.checks)]
                          ELSE h
               /\ UNCHANGED <<config, ci, first>>

NextRetriggered == RunRetriggered \/ Exit

SpecRetriggered == InitRetriggered /\ [][NextRetriggered]_vars

(* ------------------- retriers that alter the objects ------------------- *)
\* One evaluation cycle that retries with the FakeRetrier of
\* test_retrier_can_alter_db_objects, whose retry_func writes a sha on the
\* pull request and an event id on the first check of retrying.
RunAltering ==
    /\ last.outcome = "none"
    /\ \E head_sha \in Shas, now \in Times, statuses \in StatusLists(ci) :
        /\ now >= LatestStamp(checks)
        /\ FetchCurrentGhChecks(statuses) = statuses
        /\ \E r \in {ProcessorRun(config, pr, checks, head_sha, statuses, now,
                                 "FakeRetrier", AmendedSha(head_sha))} :
           \E h \in {Record(hist, r.report)} :
               /\ r.report.retried # <<>>
               /\ \A c \in Contexts : r.checks[c].failure_count <= MaxFailureCount
               /\ pr' = r.pr
               /\ checks' = r.checks
               /\ last' = r.report
               /\ hist' = h
               /\ UNCHANGED <<config, ci, first>>

\* the retriers whose retry writes a sha on the pull request object
ShaWriters == {"GitAmendPushRetrier", "FakeRetrier"}

\* The cycle that follows a retry which wrote a sha: the host answers that
\* sha as the head of the pull request (GitAmendPushRetrier has pushed the
\* amended commit, retriers.py:49), and the retrier is the same one.
RunPushed ==
    /\ last.outcome = "completed"
    /\ last.retrier \in ShaWriters
    /\ first.outcome = "none"
    /\ \E now \in Times, statuses \in StatusLists(ci) :
        /\ now >= last.now
        /\ now >= LatestStamp(checks)
        /\ FetchCurrentGhChecks(statuses) = statuses
        /\ \E r \in {ProcessorRun(config, pr, checks, AmendedSha(last.head), statuses, now,
                                 last.retrier, last.head)} :
           \E h \in {Record(hist, r.report)} :
               /\ \A c \in Contexts : r.checks[c].failure_count <= MaxFailureCount
               /\ h.terminal <= MaxCalls /\ h.cleanup_count <= MaxCalls
               /\ pr' = r.pr
               /\ checks' = r.checks
               /\ first' = [NoCycle EXCEPT !.outcome = last.outcome, !.retried = last.retried,
                                           !.retrier = last.retrier]
               /\ last' = r.report
               /\ hist' = h
               /\ UNCHANGED <<config, ci>>

NextRetrier == RunDistinct \/ RunAltering \/ RunPushed \/ Exit

\* a repository whose CI is StableCi
InitRetrier == Init /\ ci = StableCi

SpecRetrier == InitRetrier /\ [][NextRetrier]_vars

(* ----------------------- collaborators that raise ---------------------- *)
\* the operations run calls on the notifier and on the retrier
NotifierCalls == {"notifier.too_many_failures", "notifier.retrying", "notifier.success"}
RetrierCalls == {"retrier.retry", "retrier.cleanup"}

\* variant: what the cycle did before the exception is saved all the same
ProcessorRunFailing_Saved(cfg, pull_request, db_checks, head_sha, statuses, now, failing) ==
    LET r == ProcessorRun(cfg, pull_request, db_checks, head_sha, statuses, now,
                          "KubeRetrier", head_sha)
    IN  IF failing \notin Range(r.report.calls) THEN r
        ELSE [r EXCEPT !.report.outcome = "crashed"]

\* PullRequestProcessor.run when the operation failing raises: run catches
\* nothing, so the exception leaves run at the call, the statements after it
\* are not executed and nothing is committed.  The report keeps the calls up
\* to the one that raised.
ProcessorRunFailing(cfg, pull_request, db_checks, head_sha, statuses, now, failing) ==
    LET r == ProcessorRun(cfg, pull_request, db_checks, head_sha, statuses, now,
                          "KubeRetrier", head_sha)
        at == {i \in 1..Len(r.report.calls) : r.report.calls[i] = failing}
    IN  IF at = {} THEN r
        ELSE [pr |-> pull_request,
              checks |-> db_checks,
              report |-> [r.report EXCEPT
                  !.outcome = "crashed",
                  !.calls = SubSeq(@, 1, CHOOSE i \in at : TRUE),
                  !.retried = IF failing = "retrier.retry" THEN @ ELSE <<>>]]

\* One evaluation cycle in which an operation of the notifier or of the
\* retrier raises.  The host answers one status per context: the statuses
\* that _fetch_current_gh_checks drops play no part in what follows it.
RunFailing ==
    /\ last.outcome = "none"
    /\ \E head_sha \in Shas, now \in Times, statuses \in StatusLists(ci) :
        /\ now >= LatestStamp(checks)
        /\ FetchCurrentGhChecks(statuses) = statuses
        /\ ~ShortCircuits(IsNewPatch(head_sha, pr), DetectNewPatch(head_sha, pr).status)
        /\ \E called \in {Range(ProcessorRun(config, pr, checks, head_sha, statuses, now,
                                              "KubeRetrier", head_sha).report.calls)} :
           \E failing \in called \cap (NotifierCalls \cup RetrierCalls) :
           \E r \in {ProcessorRunFailing(config, pr, checks, head_sha, statuses, now,
                                        failing)} :
               /\ r.report.outcome = "crashed"
               /\ \A c \in Contexts : r.checks[c].failure_count <= MaxFailureCount
               /\ pr' = r.pr
               /\ checks' = r.checks
               /\ last' = r.report
               /\ UNCHANGED <<config, ci, hist, first>>

\* the cycle that follows one that an exception ended: same head, same
\* statuses, and every operation returns
RerunAfterCrash == last.outcome = "crashed" /\ Rerun

NextFault == RunDistinct \/ RunFailing \/ RerunAfterCrash \/ Exit

SpecFault == Init /\ [][NextFault]_vars

(* ------------------- the cycle that set the status -------------------- *)
\* The cycle whose commit left the status of the pull request as it is
\* stored, when that status is failed or successful: the head it fetched
\* and the status the pull request had after lines 54-59.  A cycle sets the
\* status in the branches that make a terminal notification (lines 66-68,
\* 76-78); a commit of the other branches stores pending.
ResolvedBy(resolved, report) ==
    IF report.outcome # "completed" THEN resolved
    ELSE IF Terminals(report.calls) > 0
         THEN [head |-> report.head, from |-> report.detected.status]
         ELSE [head |-> NoSha, from |-> "None"]

\* One evaluation cycle, one status per context, with the cycle that set the
\* stored status kept beside it.
RunResolving ==
    /\ last.outcome = "none"
    /\ \E head_sha \in Shas, now \in Times, statuses \in StatusLists(ci),
          retrier_class \in RetrierClasses :
        /\ now >= LatestStamp(checks)
        /\ FetchCurrentGhChecks(statuses) = statuses
        /\ ShortCircuits(IsNewPatch(head_sha, pr), DetectNewPatch(head_sha, pr).status)
               => (statuses = <<>> /\ retrier_class = "KubeRetrier")
        /\ \E r \in {ProcessorRun(config, pr, checks, head_sha, statuses, now,
                                 retrier_class, AmendedSha(head_sha))} :
           \E h \in {Record(hist, r.report)} :
               /\ r.report.retried = <<>> => retrier_class = "KubeRetrier"
               /\ \A c \in Contexts : r.checks[c].failure_count <= MaxFailureCount
               /\ h.terminal <= MaxCalls /\ h.cleanup_count <= MaxCalls
               /\ pr' = r.pr
               /\ checks' = r.checks
               /\ last' = r.report
               /\ hist' = [h EXCEPT !.resolved = ResolvedBy(hist.resolved, r.report)]
               /\ UNCHANGED <<config, ci, first>>

\* the processor with collaborators that may raise, on a repository whose CI
\* is StableCi
NextResolved == RunResolving \/ RunFailing \/ Exit

SpecResolved == InitRetrier /\ [][NextResolved]_vars

(* ------------------------------ Main.run ------------------------------- *)
\* the pull_requests table holds the row of the pull request: run has
\* committed it at least once
Stored(pull_request) == pull_request.last_processed_sha # NoSha

\* Main._cleanup_prs for the pull request: retrier.cleanup, then
\* db_session.delete(pr).  No commit follows the delete, in _cleanup_prs or
\* in Main.run, and the session does not autocommit (database.py:10), so the
\* transaction is rolled back when the process ends: the rows stay.
CleanupPrs(pull_request, db_checks) ==
    [pr |-> pull_request,
     checks |-> db_checks,
     report |-> [NoCycle EXCEPT !.outcome = "cleaned",
                                !.pre_pr = pull_request,
                                !.pre_checks = db_checks,
                                !.calls = <<"retrier.cleanup", "db_session.delete">>]]

\* Main.run when the search of the open pull requests of the user no longer
\* returns the stored pull request: _triage_prs leaves it in to_cleanup
MainCleanup ==
    /\ last.outcome = "none"
    /\ Stored(pr)
    /\ \E r \in {CleanupPrs(pr, checks)} :
           /\ pr' = r.pr
           /\ checks' = r.checks
           /\ last' = r.report
    /\ UNCHANGED <<config, ci, hist, first>>

NextMain == Run \/ MainCleanup \/ Exit

SpecMain == Init /\ [][NextMain]_vars

(* ------------------------- policies at three levels -------------------- *)
\* the values a key is given at a level: absent, 0 or 1
PolicyValues == {Nil, 0, 1}

\* a configuration that gives max_retries and max_retry_delay the values
\* root, repo and check at the three levels
RetryPolicy(root, repo, check) ==
    [root |-> [NoKeys EXCEPT !["max_retries"] = root, !["max_retry_delay"] = root],
     repo |-> [NoKeys EXCEPT !["max_retries"] = repo, !["max_retry_delay"] = repo],
     checks |-> [c \in Contexts |->
                    [NoKeys EXCEPT !["max_retries"] = check, !["max_retry_delay"] = check]]]

\* a configuration that gives ignore the values root, repo and check
IgnorePolicy(root, repo, check) ==
    [root |-> [NoKeys EXCEPT !["ignore"] = root],
     repo |-> [NoKeys EXCEPT !["ignore"] = repo],
     checks |-> [c \in Contexts |-> [NoKeys EXCEPT !["ignore"] = check]]]

PolicyConfigs ==
    {RetryPolicy(a, b, c) : a \in PolicyValues, b \in PolicyValues, c \in PolicyValues}
        \cup {IgnorePolicy(a, b, c) : a \in {Nil, 1}, b \in {Nil, 1}, c \in {Nil, 1}}

\* a CI with one check, which fails with a new event or passes
PolicyCi ==
    {GhCheck("blah", "error", i) : i \in Ids} \cup {GhCheck("blah", "success", 12)}

InitPolicy ==
    /\ pr = NewPullRequest
    /\ checks = [c \in Contexts |-> NoCheck]
    /\ config \in PolicyConfigs
    /\ ci = PolicyCi
    /\ last = NoCycle
    /\ hist = NoHist
    /\ first = NoCycle

\* the processor under every policy
SpecPolicy == InitPolicy /\ [][Next]_vars

(* ------------------------------ Config.get ----------------------------- *)
\* the keys of the mappings of a configuration file
PathKeys == {"top_level", "nested"}

\* the nodes of the data yaml.load returns: None, a scalar, a mapping.  A
\* mapping gives every key a node, None for a key it does not hold:
\* dict.get answers None for both.
NoneNode == [kind |-> "none", value |-> "", items |-> <<>>]

Scalar(v) == [kind |-> "scalar", value |-> v, items |-> <<>>]

Mapping(items) == [kind |-> "dict", value |-> "", items |-> items]

Leaves == {NoneNode, Scalar("value"), Scalar("True")}

RECURSIVE ConfigNodes(_)
ConfigNodes(depth) ==
    IF depth = 0 THEN Leaves
    ELSE Leaves \cup {Mapping(items) : items \in [PathKeys -> ConfigNodes(depth - 1)]}

Paths == UNION {[1..n -> PathKeys] : n \in 0..MaxPath}

\* variant: a node that is not a mapping answers None
RECURSIVE ConfigGetLoop_Lenient(_, _, _)
ConfigGetLoop_Lenient(current, path, i) ==
    IF i > Len(path) THEN [raised |-> FALSE, value |-> current]
    ELSE IF current.kind # "dict" THEN [raised |-> FALSE, value |-> NoneNode]
    ELSE LET next == current.items[path[i]] IN
         IF next.kind = "none" THEN [raised |-> FALSE, value |-> NoneNode]
         ELSE ConfigGetLoop_Lenient(next, path, i + 1)

ConfigGet_Lenient(data, path) == ConfigGetLoop_Lenient(data, path, 1)

\* the loop of Config.get from the i-th item of the path on
RECURSIVE ConfigGetLoop(_, _, _)
ConfigGetLoop(current, path, i) ==
    IF i > Len(path) THEN [raised |-> FALSE, value |-> current]
    ELSE IF current.kind # "dict" THEN [raised |-> TRUE, value |-> NoneNode]
    ELSE LET next == current.items[path[i]] IN
         IF next.kind = "none" THEN [raised |-> FALSE, value |-> NoneNode]
         ELSE ConfigGetLoop(next, path, i + 1)

\* Config.get(*path) on the data of the file
ConfigGet(data, path) == ConfigGetLoop(data, path, 1)

\* a configuration file has been loaded
InitConfig ==
    /\ pr = NewPullRequest
    /\ checks = [c \in Contexts |-> NoCheck]
    /\ config \in ConfigNodes(MaxPath)
    /\ ci = {}
    /\ last = NoCycle
    /\ hist = NoHist
    /\ first = NoCycle

\* one call of Config.get
Get ==
    /\ last.outcome = "none"
    /\ \E path \in Paths :
           \E r \in {ConfigGet(config, path)} :
               last' = [outcome |-> IF r.raised THEN "raised" ELSE "returned",
                        path |-> path, result |-> r.value]
    /\ UNCHANGED <<pr, checks, config, ci, hist, first>>

NextConfig == Get \/ Exit

SpecConfig == InitConfig /\ [][NextConfig]_vars

(* ------------------------------ KubeRetrier ----------------------------- *)
\* the contexts of the checks of a repository that KubeRetrier retries; the
\* context of a status is any string, "ci/circleci: build" holds a space
KubeContexts == {"blah", "fast_fail", "ci/circleci: build"}

\* a string as the list of its words, the words being what single spaces
\* separate
Words(context) ==
    IF context = "ci/circleci: build" THEN <<"ci/circleci:", "build">> ELSE <<context>>

\* _PREFIX = '/test ', without its space
PREFIX == "/test"

\* self._PREFIX + check.context, as the list of its words
Directive(context) == <<PREFIX>> \o Words(context)

\* a comment of the user that is no directive
Coucou == <<"coucou">>

\* comment.body.startswith(cls._PREFIX)
StartsWithPrefix(body) == Len(body) >= 2 /\ body[1] = PREFIX

\* ' ' in context, for context = comment.body[len(cls._PREFIX):]
SpaceInContext(body) == Len(body) > 2

\* KubeRetrier._cleanup: the comments of the user that are left.  all stands
\* for "retry_pending is None".
RECURSIVE KubeCleanupLoop(_, _, _, _)
KubeCleanupLoop(comments, i, all, retry_pending) ==
    IF i > Len(comments) THEN <<>>
    ELSE LET rest == KubeCleanupLoop(comments, i + 1, all, retry_pending)
             body == comments[i]
         IN  IF ~StartsWithPrefix(body) THEN <<body>> \o rest
             ELSE IF SpaceInContext(body) THEN <<body>> \o rest
             ELSE IF all \/ body[2] \notin retry_pending THEN rest
             ELSE <<body>> \o rest

\* the comments once one directive is posted for each check of retrying
RECURSIVE PostLoop(_, _, _)
PostLoop(comments, retrying, i) ==
    IF i > Len(retrying) THEN comments
    ELSE PostLoop(Append(comments, Directive(retrying[i])), retrying, i + 1)

\* KubeRetrier.cleanup
KubeCleanup(comments) == KubeCleanupLoop(comments, 1, TRUE, {})

\* KubeRetrier.retry
KubeRetry(comments, buckets) ==
    PostLoop(KubeCleanupLoop(comments, 1, FALSE, Range(buckets.retry_pending)),
             buckets.retrying, 1)

\* the lists of distinct contexts
ContextLists ==
    {l \in UNION {[1..n -> KubeContexts] : n \in 0..Cardinality(KubeContexts)} :
        \A i, j \in 1..Len(l) : i # j => l[i] # l[j]}

\* the reports run can pass to retry: a check is in one list, once
KubeReports ==
    {[EmptyBuckets EXCEPT !.retrying = retrying, !.retry_pending = retry_pending] :
        retrying \in ContextLists \ {<<>>},
        retry_pending \in {l \in ContextLists : Len(l) <= 1}}

\* a pull request with no directive among the comments of the user
InitKube ==
    /\ pr = NewPullRequest
    /\ checks = [c \in Contexts |-> NoCheck]
    /\ config \in Configs
    /\ ci = {}
    /\ last = NoCycle
    /\ hist \in {NoHist, [NoHist EXCEPT !.comments = <<Coucou>>]}
    /\ first = NoCycle

\* a call of KubeRetrier.retry, from the retry branch of run
Retry ==
    \E buckets \in KubeReports :
        /\ Range(buckets.retrying) \cap Range(buckets.retry_pending) = {}
        /\ \E after \in {KubeRetry(hist.comments, buckets)} :
               /\ Len(after) <= MaxComments
               /\ hist' = [hist EXCEPT !.comments = after]
               /\ last' = [outcome |-> "retry", buckets |-> buckets,
                           pre_comments |-> hist.comments]
        /\ UNCHANGED <<pr, checks, config, ci, first>>

\* a call of KubeRetrier.cleanup, from run or from Main._cleanup_prs
Cleanup ==
    /\ hist' = [hist EXCEPT !.comments = KubeCleanup(hist.comments)]
    /\ last' = [outcome |-> "cleanup", buckets |-> EmptyBuckets,
                pre_comments |-> hist.comments]
    /\ UNCHANGED <<pr, checks, config, ci, first>>

NextKube == Retry \/ Cleanup

SpecKube == InitKube /\ [][NextKube]_vars

(* --------------------------- Main: the triage -------------------------- *)
\* the repositories and the pull requests of the user
Repos == {"moby/moby", "wk8/github_retry"}

PullRequests ==
    {[repo |-> "moby/moby", number |-> 34567], [repo |-> "moby/moby", number |-> 1],
     [repo |-> "wk8/github_retry", number |-> 1]}

\* the entry of a repository under "repositories": a mapping without or
\* with a retrier_class or a scalar for moby/moby, none (or null) or a
\* mapping for wk8/github_retry
RepoEntries(repo) ==
    IF repo = "moby/moby"
    THEN {Scalar("True"),
          Mapping([k \in {"retrier_class"} |-> NoneNode]),
          Mapping([k \in {"retrier_class"} |-> Scalar("KubeRetrier")])}
    ELSE {NoneNode, Mapping([k \in {"retrier_class"} |-> NoneNode])}

\* the data of config.yml with the entries of the repositories
MainConfig(entries) ==
    Mapping([k \in {"repositories"} |-> Mapping(entries)])

\* the files the user can write
MainConfigs ==
    {MainConfig(entries) : entries \in {e \in [Repos -> UNION {RepoEntries(r) : r \in Repos}] :
                                            \A r \in Repos : e[r] \in RepoEntries(r)}}


\* Main._repo_config(config, pr, *subpath)
MainRepoConfig(cfg, repo, subpath) == ConfigGet(cfg, <<"repositories", repo>> \o subpath)

\* Main._build_retrier: the class named by retrier_class, GitAmendPushRetrier
\* when there is none; raised when Config.get raises
BuildRetrier(cfg, repo) ==
    LET retrier_class == MainRepoConfig(cfg, repo, <<"retrier_class">>) IN
    [raised |-> retrier_class.raised,
     class |-> IF retrier_class.value.kind = "scalar" THEN retrier_class.value.value
               ELSE "GitAmendPushRetrier"]

\* the lists of distinct pull requests the search can return
SearchResults ==
    {l \in UNION {[1..n -> PullRequests] : n \in 0..MaxPrs} :
        \A i, j \in 1..Len(l) : l[i] = l[j] => i = j}

\* the orders in which the query of the table can return the stored rows
RowOrders(rows) ==
    {l \in [1..Cardinality(rows) -> rows] : \A i, j \in 1..Len(l) : l[i] = l[j] => i = j}

\* the list without its entries for the pull request
Without(l, slug) == SelectSeq(l, LAMBDA e : e # slug)

\* variant: the stored pull request stays in existing_prs
RECURSIVE TriageLoop_NoPop(_, _, _, _, _, _)
TriageLoop_NoPop(cfg, all_gh_prs, i, rows, existing_prs, to_process) ==
    IF i > Len(all_gh_prs) THEN [to_process |-> to_process, to_cleanup |-> existing_prs]
    ELSE LET slug == all_gh_prs[i] IN
         IF MainRepoConfig(cfg, slug.repo, <<>>).value.kind = "none"
         THEN TriageLoop_NoPop(cfg, all_gh_prs, i + 1, rows, existing_prs, to_process)
         ELSE TriageLoop_NoPop(cfg, all_gh_prs, i + 1, rows, existing_prs,
                  Append(to_process, [slug |-> slug, record |-> rows[slug]]))

TriagePrs_NoPop(cfg, all_gh_prs, rows, existing_prs) ==
    TriageLoop_NoPop(cfg, all_gh_prs, 1, rows, existing_prs, <<>>)

\* the loop of _triage_prs from the i-th pull request of the search on.
\* rows is the table by slug, NewPullRequest where it has no row: the record
\* of a pull request that is not stored is the object from_url made, and it
\* has the columns of NewPullRequest.  existing_prs lists the slugs still in
\* the dict.
RECURSIVE TriageLoop(_, _, _, _, _, _)
TriageLoop(cfg, all_gh_prs, i, rows, existing_prs, to_process) ==
    IF i > Len(all_gh_prs) THEN [to_process |-> to_process, to_cleanup |-> existing_prs]
    ELSE LET slug == all_gh_prs[i] IN
         IF MainRepoConfig(cfg, slug.repo, <<>>).value.kind = "none"
         THEN TriageLoop(cfg, all_gh_prs, i + 1, rows, existing_prs, to_process)
         ELSE TriageLoop(cfg, all_gh_prs, i + 1, rows, Without(existing_prs, slug),
                  Append(to_process, [slug |-> slug, record |-> rows[slug]]))

\* Main._triage_prs
TriagePrs(cfg, all_gh_prs, rows, existing_prs) ==
    TriageLoop(cfg, all_gh_prs, 1, rows, existing_prs, <<>>)

\* the policies of the checks of every repository, as the processor reads them
MainPolicies == CHOOSE cfg \in Configs : TRUE

\* the statuses of the head of a pull request when it is processed: none,
\* one of a check that runs, or one in a state the processor does not know
MainStatuses ==
    {<<>>, <<GhCheck("blah", "pending", 12)>>, <<GhCheck("blah", "failure", 12)>>}

\* the program before its first run: the tables are empty
InitTriage ==
    /\ pr = [slug \in PullRequests |-> NewPullRequest]
    /\ checks = [slug \in PullRequests |-> [c \in Contexts |-> NoCheck]]
    /\ config \in MainConfigs
    /\ ci = MainStatuses
    /\ last = NoCycle
    /\ hist = NoHist
    /\ first = NoCycle

\* Main.run up to the call of _process_prs (main.py:14-21): the search, the
\* query of the table and the triage
Triage ==
    /\ last.outcome = "none"
    /\ \E all_gh_prs \in SearchResults,
          existing_prs \in RowOrders({slug \in PullRequests : Stored(pr[slug])}) :
           \E t \in {TriagePrs(config, all_gh_prs, pr, existing_prs)} :
               last' = [outcome |-> "triaged", all_gh_prs |-> all_gh_prs,
                        existing_prs |-> existing_prs, rows |-> pr,
                        to_process |-> t.to_process, to_cleanup |-> t.to_cleanup,
                        log |-> <<>>]
    /\ UNCHANGED <<pr, checks, config, ci, hist, first>>

\* the user edits config.yml between two runs
EditConfig ==
    /\ last.outcome = "none"
    /\ config' \in MainConfigs \ {config}
    /\ UNCHANGED <<pr, checks, ci, last, hist, first>>

\* how many entries of the log are the operation on the pull request
Logged(log, op, slug) ==
    Cardinality({i \in 1..Len(log) : log[i].op = op /\ log[i].slug = slug})

\* how many entries of the log are the operation
Done(log, op) == Cardinality({i \in 1..Len(log) : log[i].op = op})

\* One iteration of the loop of _process_prs: the retrier is built, then
\* processor.run is called on the record of the triage.  The host answers
\* the head 1111 and the clock reads minute 0.  An exception of
\* _build_retrier or of run ends Main.run.
Process ==
    /\ last.outcome = "triaged"
    /\ Done(last.log, "process") < Len(last.to_process)
    /\ \E statuses \in ci :
        LET e == last.to_process[Done(last.log, "process") + 1]
            retrier == BuildRetrier(config, e.slug.repo)
        IN  IF retrier.raised
            THEN /\ last' = [last EXCEPT !.outcome = "raised"]
                 /\ UNCHANGED <<pr, checks>>
            ELSE \E r \in {ProcessorRun(MainPolicies, e.record, checks[e.slug], "1111",
                                         statuses, 0, retrier.class, "2222")} :
                 /\ \A c \in Contexts : r.checks[c].failure_count <= MaxFailureCount
                 /\ pr' = [pr EXCEPT ![e.slug] = r.pr]
                 /\ checks' = [checks EXCEPT ![e.slug] = r.checks]
                 /\ last' = [last EXCEPT
                        !.outcome = IF r.report.outcome = "raised" THEN "raised" ELSE @,
                        !.log = Append(@, [op |-> "process", slug |-> e.slug,
                                           record |-> e.record])]
    /\ UNCHANGED <<config, ci, hist, first>>

\* One iteration of the loop of _cleanup_prs, after _process_prs returned:
\* the retrier is built, retrier.cleanup is called and the row is deleted in
\* the session.  Nothing commits the delete (see CleanupPrs): the rows stay.
CleanupNext ==
    /\ last.outcome = "triaged"
    /\ Done(last.log, "process") = Len(last.to_process)
    /\ Done(last.log, "cleanup") < Len(last.to_cleanup)
    /\ LET slug == last.to_cleanup[Done(last.log, "cleanup") + 1]
           retrier == BuildRetrier(config, slug.repo)
       IN  IF retrier.raised
           THEN last' = [last EXCEPT !.outcome = "raised"]
           ELSE last' = [last EXCEPT
                    !.log = Append(@, [op |-> "cleanup", slug |-> slug,
                                       record |-> pr[slug]])]
    /\ UNCHANGED <<pr, checks, config, ci, hist, first>>

\* Main.run returns: both loops are over
Return ==
    /\ last.outcome = "triaged"
    /\ Done(last.log, "process") = Len(last.to_process)
    /\ Done(last.log, "cleanup") = Len(last.to_cleanup)
    /\ last' = [last EXCEPT !.outcome = "returned"]
    /\ UNCHANGED <<pr, checks, config, ci, hist, first>>

NextTriage == Triage \/ Process \/ CleanupNext \/ Return \/ EditConfig \/ Exit

SpecTriage == InitTriage /\ [][NextTriage]_vars

(* ------------------------- vocabulary of the claims --------------------- *)
\* the last call of run reached the commit
Completed == last.outcome = "completed"

\* the configuration marks the context as ignored
Ignored(context) == Truthy(CheckConfig(config, context, "ignore"))

\* the states of a status the classification knows
KnownStates == {"success", "pending", "error"}

\* how many entries of the five lists of the last call are the context
Occurrences(context) == Count(ToList(last.buckets), context)

\* the contexts of a list of the last call
InBucket(b) == Range(last.buckets[b])

PreCheck(context) == last.pre_checks[context]

Resolved == {"successful", "failed"}

(* -------------------------------- C1 ----------------------------------- *)
\* C1: in a cycle that is not short-circuited and returns from the
\* classification, every deduplicated status whose context is not ignored and
\* whose state is success, pending or error has its context in exactly one of
\* the five lists, exactly once.
C1_ExactlyOneBucket ==
    Completed =>
        \A i \in 1..Len(last.gh_checks) :
            (~Ignored(last.gh_checks[i].context) /\ last.gh_checks[i].state \in KnownStates)
                => Occurrences(last.gh_checks[i].context) = 1

\* a cycle whose host answer held two statuses of one context that is not
\* ignored
C1_Witness ==
    /\ Completed
    /\ Len(last.statuses) > Len(last.gh_checks)
    /\ \E i \in 1..Len(last.gh_checks) :
           /\ ~Ignored(last.gh_checks[i].context)
           /\ Occurrences(last.gh_checks[i].context) = 1

(* -------------------------------- C2 ----------------------------------- *)
\* C2: a call of run at the head that was last processed leaves a status
\* successful or failed as it is; the status changes only from pending to
\* successful or failed, and from any other value to pending only when the
\* head differs from the one last processed.
C2_StatusTransitions ==
    last.outcome # "none" =>
        /\ (last.pre_pr.status \in Resolved /\ last.head = last.pre_pr.last_processed_sha)
               => pr.status = last.pre_pr.status
        /\ last.outcome # "completed" => pr.status = last.pre_pr.status
        /\ Completed =>
               /\ last.detected.status # last.pre_pr.status
                      => (last.detected.status = "pending"
                             /\ last.head # last.pre_pr.last_processed_sha)
               /\ pr.status # last.detected.status
                      => (last.detected.status = "pending" /\ pr.status \in Resolved)

\* a resolved pull request evaluated again at the same head, and one that a
\* new head took back to pending and that resolved in the same call
C2_Witness ==
    /\ last.outcome # "none"
    /\ last.pre_pr.status \in Resolved
    /\ \/ last.head = last.pre_pr.last_processed_sha
       \/ Completed /\ pr.status \in Resolved

(* -------------------------------- C3 ----------------------------------- *)
\* C3: when a completed cycle has a check with too many failures, the pull
\* request is failed, the too-many-failures notification and the cleanup are
\* each called once, retry and the other notifications are not called and
\* no last_retried_at changes, whatever the retrying list holds.
C3_TooManyFailuresWins ==
    (Completed /\ last.buckets.too_many_failures # <<>>) =>
        /\ pr.status = "failed"
        /\ Count(last.calls, "notifier.too_many_failures") = 1
        /\ Count(last.calls, "retrier.cleanup") = 1
        /\ Count(last.calls, "retrier.retry") = 0
        /\ Count(last.calls, "notifier.retrying") = 0
        /\ Count(last.calls, "notifier.success") = 0
        /\ last.retried = <<>>
        /\ \A c \in Contexts :
               checks[c].exists /\ PreCheck(c).exists
                   => checks[c].last_retried_at = PreCheck(c).last_retried_at
        /\ \A c \in Contexts :
               checks[c].exists /\ ~PreCheck(c).exists
                   => checks[c].last_retried_at = NoTime

\* a cycle with a check in too_many_failures and another one in retrying
C3_Witness ==
    /\ Completed
    /\ last.buckets.too_many_failures # <<>>
    /\ last.buckets.retrying # <<>>

(* -------------------------------- C4 ----------------------------------- *)
\* C4: when a completed cycle has no check with too many failures and at
\* least one in retrying, the retrying notification is sent once, retry is
\* called once with the whole report, the status stays pending, and
\* last_retried_at is the now of the cycle on the checks of retrying and is
\* untouched on every other check.
C4_RetryBranch ==
    (Completed /\ last.buckets.too_many_failures = <<>> /\ last.buckets.retrying # <<>>) =>
        /\ Count(last.calls, "notifier.retrying") = 1
        /\ Count(last.calls, "retrier.retry") = 1
        /\ Count(last.calls, "retrier.cleanup") = 0
        /\ Terminals(last.calls) = 0
        /\ last.retried = <<last.buckets>>
        /\ pr.status = "pending"
        /\ \A c \in Contexts :
               IF c \in InBucket("retrying")
               THEN checks[c].last_retried_at = last.now
               ELSE checks[c].last_retried_at = PreCheck(c).last_retried_at

\* a retry cycle with another check that waits with an older stamp
C4_Witness ==
    /\ Completed
    /\ last.buckets.too_many_failures = <<>>
    /\ last.buckets.retrying # <<>>
    /\ \E c \in InBucket("retry_pending") : checks[c].last_retried_at < last.now

(* -------------------------------- C5 ----------------------------------- *)
\* C5: when too_many_failures, retrying, retry_pending and pending are all
\* empty in a completed cycle, the pull request is successful, the success
\* notification and the cleanup are each called once and retry is not.
C5_SuccessBranch ==
    (/\ Completed
     /\ last.buckets.too_many_failures = <<>> /\ last.buckets.retrying = <<>>
     /\ last.buckets.retry_pending = <<>> /\ last.buckets.pending = <<>>) =>
        /\ pr.status = "successful"
        /\ Count(last.calls, "notifier.success") = 1
        /\ Count(last.calls, "retrier.cleanup") = 1
        /\ Count(last.calls, "retrier.retry") = 0
        /\ Count(last.calls, "notifier.too_many_failures") = 0
        /\ Count(last.calls, "notifier.retrying") = 0

\* a cycle whose only classified check succeeded
C5_Witness ==
    /\ Completed
    /\ last.buckets.successful # <<>>
    /\ last.buckets.too_many_failures = <<>> /\ last.buckets.retrying = <<>>
    /\ last.buckets.retry_pending = <<>> /\ last.buckets.pending = <<>>
    /\ pr.status = "successful"

(* -------------------------------- C6 ----------------------------------- *)
\* C6: a call of run at the head that was last processed, on a pull request
\* that is successful or failed, returns early: the statuses are not
\* fetched, neither the notifier nor the retrier is called, nothing is
\* committed and the rows are as they were.
C6_ShortCircuit ==
    (/\ last.outcome # "none"
     /\ last.pre_pr.status \in Resolved
     /\ last.head = last.pre_pr.last_processed_sha) =>
        /\ last.outcome = "short"
        /\ last.calls = <<"get_pull">>
        /\ last.statuses = <<>> /\ last.gh_checks = <<>>
        /\ last.buckets = EmptyBuckets /\ last.retried = <<>>
        /\ pr = last.pre_pr
        /\ checks = last.pre_checks

\* the early return on a pull request that has checks stored
C6_Witness ==
    /\ last.outcome = "short"
    /\ last.pre_pr.status \in Resolved
    /\ last.head = last.pre_pr.last_processed_sha
    /\ \E c \in Contexts : checks[c].exists

(* -------------------------------- C7 ----------------------------------- *)
\* C7: while the pull request is successful or failed, the terminal
\* notification and the cleanup have each been called exactly once since
\* its revision was first evaluated, whatever the number of calls of run
\* made since.
C7_TerminalOnce ==
    pr.status \in Resolved => (hist.terminal = 1 /\ hist.cleanup_count = 1)

\* a resolved pull request evaluated once more at the same head
C7_Witness ==
    /\ pr.status \in Resolved
    /\ last.outcome = "short"
    /\ hist.terminal = 1 /\ hist.cleanup_count = 1

(* -------------------------------- C8 ----------------------------------- *)
\* C8: a call of run on a successful or failed pull request whose head
\* differs from the one last processed does not return early: the status is
\* set to pending and last_processed_sha to the head, and the statuses are
\* classified in the same call with the stored counts reset, so that a
\* failure event that is new to a check leaves it with failure_count 1 in
\* retrying and any other observed check with failure_count 0.  (What is
\* committed is the head, or the amended sha when the retrier pushed one.)
C8_NewRevisionReopens ==
    (/\ last.outcome # "none"
     /\ last.pre_pr.status \in Resolved
     /\ last.head # last.pre_pr.last_processed_sha) =>
        /\ last.outcome # "short"
        /\ "get_commit" \in Range(last.calls)
        /\ last.detected = [last_processed_sha |-> last.head, status |-> "pending"]
        /\ Completed =>
               /\ pr.last_processed_sha = last.head
                     \/ (last.retried # <<>> /\ pr.last_processed_sha = AmendedSha(last.head))
               /\ \A i \in 1..Len(last.gh_checks) :
                      LET g == last.gh_checks[i] IN
                      (~Ignored(g.context) /\ g.state \in KnownStates) =>
                          IF g.state = "error" /\ g.id # PreCheck(g.context).last_errored_id
                          THEN /\ checks[g.context].failure_count = 1
                               /\ g.context \in InBucket("retrying")
                          ELSE checks[g.context].failure_count = 0

\* a failed pull request with a stored count that gets a new head and a new
\* failure event in the same call
C8_Witness ==
    /\ Completed
    /\ last.pre_pr.status \in Resolved
    /\ last.head # last.pre_pr.last_processed_sha
    /\ \E c \in InBucket("retrying") :
           PreCheck(c).failure_count >= 1 /\ checks[c].failure_count = 1

(* -------------------------------- C9 ----------------------------------- *)
\* the last call saw a failure event of the context that its Check had not
\* recorded
NewFailure(context) ==
    \E i \in 1..Len(last.gh_checks) :
        /\ last.gh_checks[i].context = context
        /\ ~Ignored(context)
        /\ last.gh_checks[i].state = "error"
        /\ last.gh_checks[i].id # PreCheck(context).last_errored_id

\* C9: when a completed cycle detected a new revision, the failure_count of
\* every stored Check of the pull request was reset to 0 before the
\* classification, observed in the cycle or not: after the cycle it is 1
\* for a check with a new failure event and 0 for every other stored check.
C9_EveryCountReset ==
    (Completed /\ last.new_patch) =>
        \A c \in Contexts :
            PreCheck(c).exists =>
                checks[c].failure_count = IF NewFailure(c) THEN 1 ELSE 0

(* -------------------------------- C10 ---------------------------------- *)
\* the max_retry_delay the configuration resolves for the context
MaxRetryDelay(context) ==
    ResolveMultiLevelConfig(config, "max_retry_delay", context, DEFAULT_MAX_RETRY_DELAY)

\* the cooldown of the context was over when the last call read the clock
CooldownOver(context) ==
    last.now - PreCheck(context).last_retried_at > MaxRetryDelay(context)

\* C10 as stated: a check that was once in retry_pending is in retrying in
\* a later cycle only if now - last_retried_at > max_retry_delay there.
C10_CooldownOnly ==
    Completed =>
        \A c \in InBucket("retrying") :
            c \in hist.retry_pending_seen => CooldownOver(c)

\* C10: a check that was once in retry_pending is in retrying in a later
\* cycle only if now - last_retried_at > max_retry_delay there or the cycle
\* observes a failure event whose id is not the stored last_errored_id.
C10_CooldownOrNewFailure ==
    Completed =>
        \A c \in InBucket("retrying") :
            c \in hist.retry_pending_seen => (CooldownOver(c) \/ NewFailure(c))

\* a check that waited in retry_pending and is retried, for the same failure
\* event, once its cooldown is over
C10_Witness ==
    /\ Completed
    /\ \E c \in InBucket("retrying") :
           /\ c \in hist.retry_pending_seen
           /\ ~NewFailure(c)
           /\ CooldownOver(c)

(* -------------------------------- C11 ---------------------------------- *)
\* the last call repeated the call before it: same head, same statuses
Twice == first.outcome # "none"

\* the calls of the last call on the notifier and on the retrier
SideEffects ==
    {i \in 1..Len(last.calls) : last.calls[i] \notin {"get_pull", "get_commit", "commit"}}

\* the last call changed no row and called neither notifier nor retrier
NothingNew ==
    /\ pr = last.pre_pr
    /\ checks = last.pre_checks
    /\ SideEffects = {}

\* C11 as stated: a second run at the same head with the same statuses
\* leaves the rows as the first run left them and makes no notification,
\* no retry and no cleanup.
C11_Idempotent == Twice => NothingNew

\* a failure the last call observed whose check has been retried and whose
\* cooldown was over when the call read the clock
CooledDown ==
    \E i \in 1..Len(last.gh_checks) :
        LET g == last.gh_checks[i] IN
        /\ ~Ignored(g.context)
        /\ g.state = "error"
        /\ PreCheck(g.context).last_retried_at # NoTime
        /\ last.now - PreCheck(g.context).last_retried_at
               > ResolveMultiLevelConfig(config, "max_retry_delay", g.context,
                                         DEFAULT_MAX_RETRY_DELAY)

\* C11: a second run at the same head with the same statuses leaves the rows
\* as the first run left them and makes no notification, no retry and no
\* cleanup, provided the head is the last_processed_sha the first run stored
\* and no observed failure has now - last_retried_at > max_retry_delay.
C11_IdempotentWithinCooldown ==
    (Twice /\ last.head = last.pre_pr.last_processed_sha /\ ~CooledDown) => NothingNew

\* the first run retried a check, the second one classified it again and
\* left it waiting
C11_Witness ==
    /\ Twice
    /\ first.retried # <<>>
    /\ Completed
    /\ last.head = last.pre_pr.last_processed_sha
    /\ ~CooledDown
    /\ last.buckets.retry_pending # <<>>

(* -------------------------------- C12 ---------------------------------- *)
\* the max_retries the configuration resolves for the context
MaxRetries(context) ==
    ResolveMultiLevelConfig(config, "max_retries", context, DEFAULT_MAX_RETRIES)

\* the failure_count the stored check enters the classification with: the
\* stored one, or 0 when the cycle found a new patch
EnteringCount(context) ==
    IF last.new_patch THEN 0 ELSE PreCheck(context).failure_count

\* a status in error the last call classified, not ignored
ObservedError(g) == ~Ignored(g.context) /\ g.state = "error"

\* C12: an observed error whose id is the stored last_errored_id leaves
\* failure_count (as it enters the classification) and last_errored_id as
\* they are, and the check is in too_many_failures if failure_count >
\* max_retries, else in retrying if last_retried_at is absent or now -
\* last_retried_at > max_retry_delay, else in retry_pending.
C12_SameFailureEvent ==
    Completed =>
        \A i \in 1..Len(last.gh_checks) :
            LET g == last.gh_checks[i]
                c == g.context
            IN  (ObservedError(g) /\ g.id = PreCheck(c).last_errored_id) =>
                    /\ checks[c].failure_count = EnteringCount(c)
                    /\ checks[c].last_errored_id = PreCheck(c).last_errored_id
                    /\ Occurrences(c) = 1
                    /\ c \in InBucket(
                           IF EnteringCount(c) > MaxRetries(c) THEN "too_many_failures"
                           ELSE IF \/ PreCheck(c).last_retried_at = NoTime
                                   \/ last.now - PreCheck(c).last_retried_at
                                          > MaxRetryDelay(c)
                                THEN "retrying"
                                ELSE "retry_pending")

\* a failure event seen again when its check has used its budget exactly and
\* its delay has just been reached: the check waits
C12_Witness ==
    /\ Completed
    /\ \E i \in 1..Len(last.gh_checks) :
           LET g == last.gh_checks[i]
               c == g.context
           IN  /\ ObservedError(g) /\ g.id = PreCheck(c).last_errored_id
               /\ EnteringCount(c) = MaxRetries(c)
               /\ last.now - PreCheck(c).last_retried_at = MaxRetryDelay(c)
               /\ c \in InBucket("retry_pending")

(* -------------------------------- C13 ---------------------------------- *)
\* C13: an observed error whose id is not the stored last_errored_id adds
\* exactly 1 to failure_count (as it enters the classification) and stores
\* the id; the check is in too_many_failures if the new count > max_retries
\* and in retrying otherwise, whatever last_retried_at is.
C13_NewFailureEvent ==
    Completed =>
        \A i \in 1..Len(last.gh_checks) :
            LET g == last.gh_checks[i]
                c == g.context
            IN  (ObservedError(g) /\ g.id # PreCheck(c).last_errored_id) =>
                    /\ checks[c].failure_count = EnteringCount(c) + 1
                    /\ checks[c].last_errored_id = g.id
                    /\ Occurrences(c) = 1
                    /\ c \in InBucket(IF EnteringCount(c) + 1 > MaxRetries(c)
                                      THEN "too_many_failures" ELSE "retrying")

\* a new failure event of a check that was retried in the same minute: it
\* is retried at once
C13_Witness ==
    /\ Completed
    /\ \E i \in 1..Len(last.gh_checks) :
           LET g == last.gh_checks[i]
               c == g.context
           IN  /\ ObservedError(g) /\ g.id # PreCheck(c).last_errored_id
               /\ PreCheck(c).last_retried_at = last.now
               /\ c \in InBucket("retrying")
               /\ checks[c].failure_count = EnteringCount(c) + 1

(* -------------------------------- C14 ---------------------------------- *)
\* the statuses the last call classified are all successes, the ignored
\* ones set aside
OnlySuccesses ==
    \A i \in 1..Len(last.gh_checks) :
        Ignored(last.gh_checks[i].context) \/ last.gh_checks[i].state = "success"

\* C14: a context the configuration ignores is in none of the five lists,
\* gets no Check created and has its Check left as it was; it cannot be what
\* is retried, and a cycle whose other statuses are all successes makes the
\* pull request successful whatever the state of the ignored one.
C14_IgnoredLeftAlone ==
    last.outcome # "none" =>
        /\ \A c \in Contexts :
               Ignored(c) => (Occurrences(c) = 0 /\ checks[c] = PreCheck(c))
        /\ last.retried # <<>> =>
               \E c \in Range(last.retried[1].retrying) : ~Ignored(c)
        /\ (Completed /\ OnlySuccesses) =>
               (pr.status = "successful" /\ Count(last.calls, "retrier.retry") = 0)

\* an ignored check in error next to a success: the pull request is
\* successful and no Check exists for the ignored context
C14_Witness ==
    /\ Completed
    /\ OnlySuccesses
    /\ \E i \in 1..Len(last.gh_checks) :
           /\ Ignored(last.gh_checks[i].context)
           /\ last.gh_checks[i].state = "error"
           /\ ~checks[last.gh_checks[i].context].exists
    /\ last.buckets.successful # <<>>
    /\ pr.status = "successful"

(* -------------------------------- C15 ---------------------------------- *)
\* ignore is set for the context at the root, at the repository or at the
\* check
IgnoredAtSomeLevel(context) ==
    \/ RootConfig(config, "ignore") = 1
    \/ RepoConfig(config, "ignore") = 1
    \/ CheckConfig(config, context, "ignore") = 1

\* C15: a status whose context has ignore set at the global level, at the
\* level of the repository or at the level of the check is not classified:
\* it is in no list and its Check is not created or changed.
C15_IgnoredAtAnyLevel ==
    Completed =>
        \A i \in 1..Len(last.gh_checks) :
            IgnoredAtSomeLevel(last.gh_checks[i].context) =>
                /\ Occurrences(last.gh_checks[i].context) = 0
                /\ checks[last.gh_checks[i].context] = PreCheck(last.gh_checks[i].context)

(* -------------------------------- C16 ---------------------------------- *)
\* the value of the most specific level that configures the key, 0
\* included, the default when no level does
MostSpecific(key, context, default) ==
    IF CheckConfig(config, context, key) # Nil THEN CheckConfig(config, context, key)
    ELSE IF RepoConfig(config, key) # Nil THEN RepoConfig(config, key)
    ELSE IF RootConfig(config, key) # Nil THEN RootConfig(config, key)
    ELSE default

\* C16: the max_retries and the max_retry_delay resolved for a check are the
\* values of the most specific level that configures them, searched check,
\* repository, global, and the defaults only when no level does, for every
\* value >= 0, 0 included.
C16_MostSpecificWins ==
    \A c \in Contexts :
        /\ ResolveMultiLevelConfig(config, "max_retries", c, DEFAULT_MAX_RETRIES)
               = MostSpecific("max_retries", c, DEFAULT_MAX_RETRIES)
        /\ ResolveMultiLevelConfig(config, "max_retry_delay", c, DEFAULT_MAX_RETRY_DELAY)
               = MostSpecific("max_retry_delay", c, DEFAULT_MAX_RETRY_DELAY)

(* -------------------------------- C17 ---------------------------------- *)
\* the last call ended in an exception raised by the operation
CrashedIn(operations) ==
    /\ last.outcome = "crashed"
    /\ last.calls[Len(last.calls)] \in operations

\* C17: when retrier.retry raises, nothing of the cycle is persisted (no
\* stamp, no change of failure_count, last_errored_id, status or
\* last_processed_sha, no commit), and the next cycle at the same head with
\* the same statuses has the same checks in retrying and calls
\* retrier.retry again.
C17_RetryFailureNotRecorded ==
    /\ CrashedIn({"retrier.retry"}) =>
           /\ pr = last.pre_pr
           /\ checks = last.pre_checks
           /\ "commit" \notin Range(last.calls)
    /\ (Twice /\ first.outcome = "crashed" /\ first.retried # <<>>) =>
           /\ Range(first.retried[1].retrying) \subseteq InBucket("retrying")
           /\ Count(last.calls, "retrier.retry") = 1
           /\ last.retried # <<>>

\* a cycle whose retry raised, followed by the cycle that retries again
C17_Witness ==
    /\ Twice
    /\ first.outcome = "crashed" /\ first.retried # <<>>
    /\ Completed
    /\ last.retried # <<>>
    /\ \E c \in InBucket("retrying") : checks[c].last_retried_at = last.now

(* -------------------------------- C18 ---------------------------------- *)
\* C18: when an operation of the notifier raises, the cycle goes on: the
\* retrier is called and the pull request and its checks are committed.
C18_NotifierFailureHarmless ==
    CrashedIn(NotifierCalls) =>
        /\ \E i \in 1..Len(last.calls) : last.calls[i] \in RetrierCalls
        /\ "commit" \in Range(last.calls)

(* -------------------------------- C19 ---------------------------------- *)
\* the last call fetched a status the classification does not know, of a
\* context that is not ignored
UnknownState ==
    \E i \in 1..Len(last.gh_checks) :
        /\ ~Ignored(last.gh_checks[i].context)
        /\ last.gh_checks[i].state \notin KnownStates

\* C19: a status whose state is none of success, pending and error (and
\* whose context is not ignored) makes run raise, wherever it is in the
\* list: neither notifier nor retrier is called and nothing is committed;
\* run raises this way in no other case.
C19_UnknownStateAborts ==
    /\ (last.outcome \in {"completed", "raised"} /\ UnknownState) =>
           last.outcome = "raised"
    /\ last.outcome = "raised" =>
           /\ UnknownState
           /\ last.calls = <<"get_pull", "get_commit">>
           /\ last.retried = <<>>
           /\ pr = last.pre_pr
           /\ checks = last.pre_checks

\* the unknown state comes after a new failure of another check, whose
\* count is not saved
C19_Witness ==
    /\ last.outcome = "raised"
    /\ Len(last.gh_checks) >= 2
    /\ last.gh_checks[1].state = "error"
    /\ ~Ignored(last.gh_checks[1].context)
    /\ last.gh_checks[1].id # PreCheck(last.gh_checks[1].context).last_errored_id
    /\ last.gh_checks[2].state \notin KnownStates
    /\ checks[last.gh_checks[1].context] = PreCheck(last.gh_checks[1].context)

(* -------------------------------- C20 ---------------------------------- *)
\* C20: after a run that found the stored pull request no longer open
\* upstream, retrier.cleanup has been called once and the row of the pull
\* request and the rows of its checks are gone from the store.
C20_CleanedUpAndDeleted ==
    last.outcome = "cleaned" =>
        /\ Count(last.calls, "retrier.cleanup") = 1
        /\ ~Stored(pr)
        /\ \A c \in Contexts : ~checks[c].exists

(* -------------------------------- C21 ---------------------------------- *)
\* the last call followed a retry that wrote a sha, at the head that sha names
AfterPush == first.retrier \in ShaWriters /\ last.outcome # "none"

\* C21: what retrier.retry writes on the pull request (last_processed_sha)
\* and on the checks of the report (last_errored_id) is what the cycle
\* commits, the engine adding only the stamp last_retried_at = now on the
\* checks of retrying; the next cycle, at the head the retry produced, finds
\* no new revision and resets no failure_count.
C21_RetrierChangesPersist ==
    /\ (Completed /\ last.retrier \in ShaWriters) =>
           pr = [last_processed_sha |-> AmendedSha(last.head), status |-> "pending"]
    /\ (Completed /\ last.retrier = "KubeRetrier") =>
           pr = [last_processed_sha |-> last.head, status |-> "pending"]
    /\ (Completed /\ last.retrier = "FakeRetrier") =>
           /\ checks[last.buckets.retrying[1]].last_errored_id = AlteredId
           /\ checks[last.buckets.retrying[1]].last_retried_at = last.now
    /\ AfterPush =>
           /\ ~last.new_patch
           /\ \A c \in Contexts :
                  PreCheck(c).exists => checks[c].failure_count >= PreCheck(c).failure_count

\* a retry that amended the head and wrote 82 over the event id 28 of the
\* failure, then the cycle at the amended head, where the stored count is
\* kept
C21_Witness ==
    /\ first.retrier = "FakeRetrier"
    /\ Completed
    /\ last.head = last.pre_pr.last_processed_sha
    /\ \E c \in Contexts :
           /\ PreCheck(c).last_errored_id = AlteredId
           /\ PreCheck(c).failure_count >= 1
           /\ checks[c].failure_count >= 1
           /\ c \in InBucket("retry_pending")

(* -------------------------------- C22 ---------------------------------- *)
\* the nodes the path of the last call of Config.get addresses: NodeAt[0] is
\* the data of the file, NodeAt[k] the node the k-th segment addresses
\* (None when the node before it is no mapping or does not hold the segment)
NodeAt[k \in 0..MaxPath] ==
    IF k = 0 THEN config
    ELSE IF k > Len(last.path) \/ NodeAt[k - 1].kind # "dict" THEN NoneNode
    ELSE NodeAt[k - 1].items[last.path[k]]

\* the first k segments are found and address mappings
MappingsUpTo(k) == \A j \in 0..k : NodeAt[j].kind = "dict"

\* C22: Config.get returns the value found by descending the mapping along
\* the path, returns None as soon as a segment is missing, and raises when a
\* segment that is not the last addresses a node that exists and is not a
\* mapping.
C22_ConfigGet ==
    (last.outcome \in {"returned", "raised"} /\ config.kind = "dict") =>
        LET n == Len(last.path) IN
        /\ (\A k \in 1..n : NodeAt[k].kind # "none" /\ (k < n => NodeAt[k].kind = "dict"))
               => (last.outcome = "returned" /\ last.result = NodeAt[n])
        /\ (\E k \in 1..n : MappingsUpTo(k - 1) /\ NodeAt[k].kind = "none")
               => (last.outcome = "returned" /\ last.result = NoneNode)
        /\ (\E k \in 1..(n - 1) : MappingsUpTo(k - 1) /\ NodeAt[k].kind = "scalar")
               => last.outcome = "raised"

\* get('top_level', 'nested') on a file whose top_level is a scalar raises
C22_Witness ==
    /\ last.outcome = "raised"
    /\ config.kind = "dict"
    /\ Len(last.path) = 2
    /\ NodeAt[1].kind = "scalar"

(* -------------------------------- C23 ---------------------------------- *)
\* the checks whose stored last_retried_at the last call changed
Stamped ==
    IF last.outcome = "none" THEN {}
    ELSE {c \in Contexts : checks[c].last_retried_at # PreCheck(c).last_retried_at}

\* the calls of the last call come in this order, as far as they go
InOrder(order) ==
    \/ last.calls = order
    \/ /\ last.outcome = "crashed"
       /\ Len(last.calls) <= Len(order)
       /\ last.calls = SubSeq(order, 1, Len(last.calls))

\* C23: a stored last_retried_at that a cycle set is the now of that cycle,
\* and in that cycle retrier.retry was called with the check in retrying and
\* returned; a cycle that retries sends the notification, then calls the
\* retrier, then stamps, then commits.
C23_StampOnlyAfterRetry ==
    /\ \A c \in Stamped :
           /\ Completed
           /\ checks[c].last_retried_at = last.now
           /\ last.retried # <<>>
           /\ c \in Range(last.retried[1].retrying)
           /\ Count(last.calls, "retrier.retry") = 1
    /\ (\E i \in 1..Len(last.calls) : last.calls[i] \in {"notifier.retrying", "retrier.retry"})
           => InOrder(<<"get_pull", "get_commit", "notifier.retrying", "retrier.retry",
                        "commit">>)

\* a check that was retried once is retried and stamped again, in the cycle
\* that follows one whose retry raised
C23_Witness ==
    /\ Completed
    /\ first.outcome = "crashed" /\ first.retried # <<>>
    /\ \E c \in Stamped :
           /\ PreCheck(c).last_retried_at # NoTime
           /\ c \in InBucket("retrying")

(* -------------------------------- C24 ---------------------------------- *)
\* the places of the list the host answered that hold the first status of a
\* context
FirstOfContext ==
    {i \in 1..Len(last.statuses) :
        \A j \in 1..(i - 1) : last.statuses[j].context # last.statuses[i].context}

\* the place of the k-th of them
KthFirst(k) ==
    CHOOSE i \in FirstOfContext : Cardinality({j \in FirstOfContext : j <= i}) = k

\* C24: of several statuses of one context the first of the list alone is
\* classified: the statuses kept are the first of each context, in the
\* order of the list, and in a completed cycle the list a context is in and
\* the fields of its Check are those the first status gives (the stamp of a
\* retry set aside), whatever the later ones are.
C24_FirstStatusOnly ==
    last.outcome \in {"completed", "raised"} =>
        /\ Len(last.gh_checks) = Cardinality(FirstOfContext)
        /\ \A k \in 1..Len(last.gh_checks) : last.gh_checks[k] = last.statuses[KthFirst(k)]
        /\ Completed =>
               \A i \in FirstOfContext :
                   LET g == last.statuses[i]
                       c == g.context
                       res == ClassifyCheck(config, LoadOrCreateCheck(PreCheck(c), last.new_patch),
                                            g, last.now)
                   IN  ~Ignored(c) =>
                           /\ Occurrences(c) = 1
                           /\ c \in InBucket(res.bucket)
                           /\ [checks[c] EXCEPT !.last_retried_at = NoTime]
                                  = [res.check EXCEPT !.last_retried_at = NoTime]

\* a list whose first status is a success of a check and whose second is an
\* error of the same check: the check is successful and no failure is
\* counted
C24_Witness ==
    /\ Completed
    /\ Len(last.statuses) = 2
    /\ last.statuses[1].context = last.statuses[2].context
    /\ last.statuses[1].state = "success"
    /\ last.statuses[2].state = "error"
    /\ last.statuses[1].context \in InBucket("successful")
    /\ checks[last.statuses[1].context].failure_count = 0

(* -------------------------------- C25 ---------------------------------- *)
\* the last call completed with nothing to fail or retry and a check that
\* is pending or waits for its cooldown
OnlyWaiting ==
    /\ Completed
    /\ last.buckets.too_many_failures = <<>> /\ last.buckets.retrying = <<>>
    /\ Len(last.buckets.pending) + Len(last.buckets.retry_pending) > 0

\* C25: a cycle with too_many_failures and retrying empty and a check in
\* pending or retry_pending calls no operation of the notifier or of the
\* retrier, leaves the pull request pending and changes no last_retried_at.
C25_WaitingCycleIsQuiet ==
    OnlyWaiting =>
        /\ SideEffects = {}
        /\ last.retried = <<>>
        /\ pr.status = "pending"
        /\ \A c \in Contexts : checks[c].last_retried_at = PreCheck(c).last_retried_at

\* a cycle that finds a check within its cooldown and commits without a
\* call
C25_Witness ==
    /\ OnlyWaiting
    /\ last.buckets.retry_pending # <<>>
    /\ last.calls = <<"get_pull", "get_commit", "commit">>
    /\ \E c \in InBucket("retry_pending") : checks[c].last_retried_at # NoTime

(* -------------------------------- C26 ---------------------------------- *)
\* a status the last call classified as passed or running
PassedOrRunning(g) == ~Ignored(g.context) /\ g.state \in {"success", "pending"}

C27_ConsecutiveFailures ==
    Completed =>
        \A i \in 1..Len(last.gh_checks) :
            LET c == last.gh_checks[i].context IN
            ~Ignored(c) => checks[c].failure_count = hist.in_a_row[c]

(* -------------------------------- C28 ---------------------------------- *)
\* how many comments of the user are the directive of the context
Outstanding(comments, context) ==
    Cardinality({i \in 1..Len(comments) : comments[i] = Directive(context)})

\* C28: from a pull request with no directive, after any calls of retry
\* and cleanup of KubeRetrier at most one '/test <context>' comment is
\* outstanding for a context; a retry leaves the directives of the contexts
\* of retry_pending, deletes the other ones and posts one for each check of
\* retrying.
C28_OneDirectivePerContext ==
    /\ \A c \in KubeContexts : Outstanding(hist.comments, c) <= 1
    /\ last.outcome = "retry" =>
           \A c \in KubeContexts :
               Outstanding(hist.comments, c) =
                   IF c \in Range(last.buckets.retrying) THEN 1
                   ELSE IF c \in Range(last.buckets.retry_pending)
                        THEN Outstanding(last.pre_comments, c)
                        ELSE 0

(* -------------------------------- C29 ---------------------------------- *)
\* C29: after a cleanup of the retrier no directive of the pull request is
\* left, a second cleanup changes nothing, and a cleanup of a pull request
\* with no directive changes nothing.
C29_CleanupIdempotent ==
    last.outcome = "cleanup" =>
        /\ \A c \in KubeContexts : Outstanding(hist.comments, c) = 0
        /\ KubeCleanup(hist.comments) = hist.comments
        /\ (\A c \in KubeContexts : Outstanding(last.pre_comments, c) = 0)
               => hist.comments = last.pre_comments

(* -------------------------------- C30 ---------------------------------- *)
\* the last call fetched no status, or statuses of ignored contexts only
NothingObserved ==
    \A i \in 1..Len(last.gh_checks) : Ignored(last.gh_checks[i].context)

\* C30: a cycle that is not short-circuited and observes no status that is
\* not ignored has its five lists empty and makes the pull request
\* successful, with the success notification and the cleanup; the cycles
\* that follow at the same head return early, so a status posted later for
\* that head is not classified.
C30_NothingObservedIsSuccess ==
    /\ (Completed /\ NothingObserved) =>
           /\ last.buckets = EmptyBuckets
           /\ pr.status = "successful"
           /\ last.calls = <<"get_pull", "get_commit", "notifier.success",
                             "retrier.cleanup", "commit">>
    /\ (/\ last.outcome # "none"
        /\ last.pre_pr.status = "successful"
        /\ last.head = last.pre_pr.last_processed_sha) =>
           /\ last.outcome = "short"
           /\ "get_commit" \notin Range(last.calls)
           /\ last.buckets = EmptyBuckets
           /\ pr = last.pre_pr /\ checks = last.pre_checks

\* a pull request that is successful with no Check stored, its head having
\* had no status that counts when it was evaluated, returns early at a
\* later cycle
C30_Witness ==
    /\ last.outcome = "short"
    /\ pr.status = "successful"
    /\ last.head = last.pre_pr.last_processed_sha
    /\ \A c \in Contexts : ~checks[c].exists
    /\ hist.terminal = 1 /\ hist.cleanup_count = 1

(* -------------------------------- C31 ---------------------------------- *)
\* the last call invoked retrier.retry
Retried == last.retried # <<>>

\* C31: an error seen again with the event id its check holds, when the
\* stored failure_count is within max_retries, never raises failure_count (it
\* stays as it enters the classification) and keeps the id; the check is not
\* in too_many_failures, so a pull request that ends failed owes it to
\* another check; the check is in retrying again whenever its cooldown is
\* over, and retrier.retry is then invoked and the check stamped unless
\* another check has too many failures.  The retries of one event are
\* counted nowhere in the rows.
C31_SameEventRetriedAgain ==
    Completed =>
        \A i \in 1..Len(last.gh_checks) :
            LET g == last.gh_checks[i]
                c == g.context
            IN  (/\ ObservedError(g)
                 /\ g.id = PreCheck(c).last_errored_id
                 /\ PreCheck(c).failure_count <= MaxRetries(c)) =>
                    /\ checks[c].failure_count = EnteringCount(c)
                    /\ checks[c].failure_count <= PreCheck(c).failure_count
                    /\ ~last.new_patch => checks[c].failure_count = PreCheck(c).failure_count
                    /\ checks[c].last_errored_id = g.id
                    /\ c \notin InBucket("too_many_failures")
                    /\ (PreCheck(c).last_retried_at = NoTime \/ CooldownOver(c))
                           <=> c \in InBucket("retrying")
                    /\ (c \in InBucket("retrying") /\ last.buckets.too_many_failures = <<>>)
                           => /\ Retried
                              /\ Count(last.calls, "retrier.retry") = 1
                              /\ checks[c].last_retried_at = last.now
                              /\ hist.retries_of_event[c] >= 1
                    /\ pr.status = "failed"
                           => \E d \in InBucket("too_many_failures") : d # c

\* a check retried for one failure event more often than max_retries + 1
\* times, with failure_count still 1 and the pull request still pending
C31_Witness ==
    /\ Completed
    /\ Retried
    /\ \E c \in InBucket("retrying") :
           /\ ~NewFailure(c)
           /\ ~last.new_patch
           /\ PreCheck(c).last_retried_at # NoTime
           /\ CooldownOver(c)
           /\ hist.retries_of_event[c] > MaxRetries(c) + 1
           /\ checks[c].failure_count = 1
    /\ pr.status = "pending"

(* -------------------------------- C32 ---------------------------------- *)
\* C32: whenever the stored status of the pull request is successful or
\* failed, the stored last_processed_sha is the head fetched by the cycle
\* that set the status, and that cycle set it on a pull request whose status
\* was pending after the detection of a new revision.
C32_ResolvedAtFetchedHead ==
    pr.status \in Resolved =>
        /\ pr.last_processed_sha = hist.resolved.head
        /\ hist.resolved.from = "pending"

\* a pull request that was stored as failed at one head and is stored as
\* successful at another, by the cycle that detected the new revision
C32_Witness ==
    /\ Completed
    /\ last.new_patch
    /\ last.pre_pr.status = "failed"
    /\ last.pre_pr.last_processed_sha # last.head
    /\ pr.status = "successful"
    /\ pr.last_processed_sha = last.head
    /\ hist.resolved = [head |-> last.head, from |-> "pending"]

(* -------------------------------- C33 ---------------------------------- *)
\* Main.run has made its triage
Triaged == last.outcome \in {"triaged", "returned", "raised"}

\* the file gives the repository an entry under "repositories" (a null entry
\* is none: dict.get answers None for it as for a missing key)
HasEntry(repo) == config.items["repositories"].items[repo].kind # "none"

\* the pull requests the search returned
Open == Range(last.all_gh_prs)

\* the run has processed, has cleaned up the pull request
Processed(slug) == Logged(last.log, "process", slug)
CleanedUp(slug) == Logged(last.log, "cleanup", slug)

\* C33: in a run of Main, a pull request is processed at most once and only
\* if the search returned it and its repository has an entry, on the stored
\* record when the table had a row for its slug and on a new one otherwise;
\* it is cleaned up at most once and only if the table had its row and the
\* run does not process it; never both; no processing follows a cleanup, and
\* the first cleanup follows the processing of every pull request to
\* process.  When the run returns, every pull request the search returned
\* whose repository has an entry has been processed exactly once and every
\* stored pull request that was not processed has been cleaned up exactly
\* once.
C33_TriagePartitions ==
    Triaged =>
        /\ \A slug \in PullRequests :
               /\ Processed(slug) <= 1
               /\ CleanedUp(slug) <= 1
               /\ Processed(slug) + CleanedUp(slug) <= 1
               /\ Processed(slug) = 1 => (slug \in Open /\ HasEntry(slug.repo))
               /\ (slug \in Open /\ ~HasEntry(slug.repo)) => Processed(slug) = 0
               /\ CleanedUp(slug) = 1 =>
                      /\ Stored(last.rows[slug])
                      /\ ~(slug \in Open /\ HasEntry(slug.repo))
               /\ last.outcome = "returned" =>
                      /\ (slug \in Open /\ HasEntry(slug.repo)) => Processed(slug) = 1
                      /\ (Stored(last.rows[slug]) /\ Processed(slug) = 0)
                             => CleanedUp(slug) = 1
        /\ \A i \in 1..Len(last.log) :
               /\ last.log[i].op = "process" => last.log[i].record = last.rows[last.log[i].slug]
               /\ last.log[i].op = "cleanup" =>
                      /\ \A j \in i..Len(last.log) : last.log[j].op = "cleanup"
                      /\ \A slug \in PullRequests :
                             (slug \in Open /\ HasEntry(slug.repo))
                                 => \E j \in 1..(i - 1) :
                                        last.log[j] = [op |-> "process", slug |-> slug,
                                                       record |-> last.rows[slug]]

\* a run that returned after it processed a stored pull request on its
\* record, then cleaned up a stored one that the search returned but whose
\* repository has no entry, then one that the search did not return
C33_Witness ==
    /\ last.outcome = "returned"
    /\ \E a, b, c \in PullRequests :
           /\ Processed(a) = 1 /\ Stored(last.rows[a])
           /\ CleanedUp(b) = 1 /\ b \in Open /\ ~HasEntry(b.repo)
           /\ CleanedUp(c) = 1 /\ c \notin Open
           /\ last.log[Len(last.log)].slug = c
====
